---- MODULE Spec2Model ----
(***************************************************************************)
(* Rank-sampling engine of the product landing page repository:            *)
(*   - the POST /api/grid-search handler with its credit gate              *)
(*     (server/routes.ts, server/app.ts),                                  *)
(*   - the organic and local-pack trackers of the SEO dashboard and the    *)
(*     project rankings checks that drive them                             *)
(*     (dashboard-src/server/serper.ts, dashboard-src/server/routes.ts).   *)
(*                                                                         *)
(* JavaScript runs each handler to its next await without interleaving,    *)
(* so one action is one such run-to-completion segment.                    *)
(*                                                                         *)
(* Strings the code inspects character by character (URLs, domains,        *)
(* keywords) are sequences of one-character strings.  An optional value    *)
(* (T | null) is a sequence of length 0 or 1.                              *)
(***************************************************************************)
EXTENDS Integers, Sequences, FiniteSets, TLC

VARIABLES
    apiKey,        \* process.env.SERPER_API_KEY is set
    sessions,      \* users holding a session (req.session.user)
    userCredits,   \* app.ts userCredits: Map<userId, number>
    pc,            \* per request: "idle" | "batch" | "pause" | "done"
    body,          \* per request: session user, req.body and the provider's behaviour
    batchStart,    \* per request: loop variable i of the batch loop
    calls,         \* per request: the promises of the current batch, by index
    results,       \* per request: the results array
    response,      \* per request: the HTTP response sent
    issued,        \* per request: indices of the points a provider request was sent for
    nbatches,      \* per request: number of batches dispatched
    tpc,           \* rankings check: "idle" | "call" | "wait" | "collect" | "done"
    check,         \* rankings check: mode, keywords, target of the project
    kwIndex,       \* rankings check: index of the keyword being tracked
    page,          \* tracker: loop variable page
    totalPositionCount, \* tracker: running overall position
    matchingPlaces,\* local tracker: matches collected so far
    allPlaces,     \* local tracker: places scanned so far
    pagesSeen,     \* tracker: pages the provider returned in this run, in order
    pageRequests,  \* tracker: page numbers requested in this run, in order
    trackResult,   \* tracker: the value returned (or the error thrown) by the run
    rankings,      \* rankings check: per-keyword entries collected so far
    stored,        \* storage.saveRanking / saveLocalRanking records
    checkResponse, \* rankings check: HTTP status sent (0 = none yet)
    markerPosition,\* map page: the selected location, <<>> when none
    gridConfig,    \* map page: enabled, distanceUnit, spacing, gridSize
    gridPoints,    \* map page: the grid points shown
    projectIds,    \* dashboard storage: the project ids handed out so far
    projects,      \* dashboard storage: the stored projects, by id
    projectSchedulers, \* scheduler.ts projectSchedulers: Map<projectId, ProjectScheduler>
    timers,        \* the interval timers that are set: timer id -> project id
    nextTimerId,   \* the next id setInterval hands out
    isRunning,     \* scheduler.ts isRunning
    cycles         \* the ranking-check cycles in progress, by slot

gridVars == <<apiKey, sessions, userCredits, pc, body, batchStart, calls,
              results, response, issued, nbatches>>
trackVars == <<tpc, check, kwIndex, page, totalPositionCount, matchingPlaces, allPlaces,
               pagesSeen, pageRequests, trackResult, rankings, stored, checkResponse>>
clientVars == <<markerPosition, gridConfig, gridPoints>>
schedVars == <<projectIds, projects, projectSchedulers, timers, nextTimerId, isRunning, cycles>>
vars == <<gridVars, trackVars, clientVars, schedVars>>

----------------------------------------------------------------------------
(* Bounds of the model *)

MaxPoints == 11
MaxScenario == 2
MaxInitCredits == 2
MaxGridSize == 5
MaxUnselected == 1
MaxCycles == 2
MaxTimers == 3

----------------------------------------------------------------------------
(* Strings *)

LOWERS == <<"a", "b", "c", "d", "e", "f", "g", "h", "i", "j", "k", "l", "m",
            "n", "o", "p", "q", "r", "s", "t", "u", "v", "w", "x", "y", "z">>
UPPERS == <<"A", "B", "C", "D", "E", "F", "G", "H", "I", "J", "K", "L", "M",
            "N", "O", "P", "Q", "R", "S", "T", "U", "V", "W", "X", "Y", "Z">>

\* String.prototype.toLowerCase on one character
LowerChar(c) ==
    IF \E k \in 1..Len(UPPERS) : UPPERS[k] = c
    THEN LOWERS[CHOOSE k \in 1..Len(UPPERS) : UPPERS[k] = c]
    ELSE c

toLowerCase(s) == [k \in 1..Len(s) |-> LowerChar(s[k])]

startsWith(s, p) == Len(s) >= Len(p) /\ SubSeq(s, 1, Len(p)) = p

endsWith(s, p) == Len(s) >= Len(p) /\ SubSeq(s, Len(s) - Len(p) + 1, Len(s)) = p

includes(s, p) == \E k \in 1..(Len(s) - Len(p) + 1) : SubSeq(s, k, k + Len(p) - 1) = p

\* s.replace(/^p/, '')
StripPrefix(s, p) == IF startsWith(s, p) THEN SubSeq(s, Len(p) + 1, Len(s)) ELSE s

\* s.split(c)[0]
SplitFirst(s, c) ==
    IF \E k \in 1..Len(s) : s[k] = c
    THEN SubSeq(s, 1, (CHOOSE k \in 1..Len(s) : s[k] = c /\ \A j \in 1..(k - 1) : s[j] # c) - 1)
    ELSE s

\* A JSON value that is absent (undefined) and one that is not a string
Undefined == <<"(undefined)">>
NonString == <<"(number)">>

HTTP_ == <<"h", "t", "t", "p", ":", "/", "/">>
HTTPS_ == <<"h", "t", "t", "p", "s", ":", "/", "/">>
WWW_ == <<"w", "w", "w", ".">>

EX_CO == <<"e", "x", ".", "c", "o">>
URL_TARGET == HTTPS_ \o WWW_ \o EX_CO \o <<"/">>
URL_OTHER == HTTP_ \o <<"o", "t", "h", "e", "r", ".", "i", "o">>
URL_SHOP == <<"s", "h", "o", "p", ".">> \o EX_CO \o <<"/", "m", "e", "n", "u">>
URL_NOTEX == <<"n", "o", "t">> \o EX_CO
URL_XCO == <<"x", ".", "c", "o">>
KW_PIZZA == <<"p", "i", "z", "z", "a">>
KW_BLANK == <<" ">>

----------------------------------------------------------------------------
(* POST /api/grid-search: pure parts *)

batchSize == 5
FREE_CREDITS == 50
PlacesLimit == 20
LogLimit == 5

\* rank: number | null.  A rank is never falsy (position || (i + 1)), so 0 is free
\* to stand for null; avgRank likewise (avgRank ? ... : null), kept in tenths.
NullRank == 0

NoUser == "(no session)"
NoError == "(no error field)"

Min(a, b) == IF a < b THEN a ELSE b

\* The cell of a 5x5 lattice at row-major index k, as calculateGridPoints builds it;
\* the id `${row}_${col}` is the pair <<row, col>>.
LatticePoint(k) ==
    LET row == ((k - 1) \div 5) - 2
        col == ((k - 1) % 5) - 2
    IN  [id |-> <<row, col>>, lat |-> 40 + row, lng |-> col - 70, row |-> row, col |-> col]

Reverse(s) == [k \in 1..Len(s) |-> s[Len(s) + 1 - k]]

\* The selected points a client submits: the first n cells, in either order
PointList(n, order) ==
    LET asc == [k \in 1..n |-> LatticePoint(k)]
    IN  IF order = "asc" THEN asc ELSE Reverse(asc)

normalizeWebsite(url) ==
    IF url = Undefined \/ url = <<>> THEN <<>>
    ELSE LET a == toLowerCase(url)
             b == IF startsWith(a, HTTPS_) THEN StripPrefix(a, HTTPS_) ELSE StripPrefix(a, HTTP_)
             c == StripPrefix(b, WWW_)
             d == IF Len(c) > 0 /\ c[Len(c)] = "/" THEN SubSeq(c, 1, Len(c) - 1) ELSE c
         IN  SplitFirst(SplitFirst(d, "/"), "?")

\* The loose containment test of the grid search
PlaceMatches(placeDomain, targetDomain) ==
    placeDomain # <<>> /\ (includes(placeDomain, targetDomain) \/ includes(targetDomain, placeDomain))

\* Mutant: the message without the fallback
ErrorMessageRaw(message) == message

\* error?.message || "Unknown error"
ErrorMessage(message) == IF message = "" THEN "Unknown error" ELSE message

\* `API error: ${response.status}`
ApiError(status) ==
    CASE status = 429 -> "API error: 429"
      [] status = 500 -> "API error: 500"
      [] OTHER -> "API error"

ErrorOutcome(point, message) ==
    [pointId |-> point.id, lat |-> point.lat, lng |-> point.lng, row |-> point.row,
     col |-> point.col, rank |-> NullRank, matchedPlace |-> <<>>, places |-> <<>>,
     error |-> message]

\* places.slice(0, 20).map(...)
OutcomePlaces(places) ==
    [k \in 1..Min(Len(places), PlacesLimit) |->
        [position |-> places[k].position,
         title |-> places[k].title,
         website |-> IF places[k].website = Undefined THEN <<>> ELSE places[k].website]]

\* The debug log of the first five websites normalizes each of them
LogThrows(places) ==
    \E k \in 1..Min(Len(places), LogLimit) : places[k].website = NonString

\* Mutant: the rank is the index, whatever position the place carries
RECURSIVE ScanPlacesByIndex(_, _, _)
ScanPlacesByIndex(places, i, targetDomain) ==
    IF i > Len(places)
    THEN [rank |-> NullRank, matchedPlace |-> <<>>, threw |-> FALSE]
    ELSE IF places[i].website = NonString
    THEN [rank |-> NullRank, matchedPlace |-> <<>>, threw |-> TRUE]
    ELSE IF PlaceMatches(normalizeWebsite(places[i].website), targetDomain)
    THEN [rank |-> i, matchedPlace |-> <<places[i]>>, threw |-> FALSE]
    ELSE ScanPlacesByIndex(places, i + 1, targetDomain)

\* The scan for the first matching place, from index i on
RECURSIVE ScanPlaces(_, _, _)
ScanPlaces(places, i, targetDomain) ==
    IF i > Len(places)
    THEN [rank |-> NullRank, matchedPlace |-> <<>>, threw |-> FALSE]
    ELSE IF places[i].website = NonString
    THEN [rank |-> NullRank, matchedPlace |-> <<>>, threw |-> TRUE]
    ELSE IF PlaceMatches(normalizeWebsite(places[i].website), targetDomain)
    THEN [rank |-> IF places[i].position # 0 THEN places[i].position ELSE i,
          matchedPlace |-> <<places[i]>>, threw |-> FALSE]
    ELSE ScanPlaces(places, i + 1, targetDomain)

\* Mutant: the places are scanned whatever the target
searchGridPointUnguarded(point, resp, targetDomain) ==
    CASE resp.kind = "reject" -> ErrorOutcome(point, ErrorMessage(resp.message))
      [] resp.kind = "notok" -> ErrorOutcome(point, ApiError(resp.status))
      [] resp.kind = "badjson" -> ErrorOutcome(point, ErrorMessage(resp.message))
      [] OTHER ->
           LET places == resp.places
               scan == ScanPlaces(places, 1, targetDomain)
           IN  IF LogThrows(places) \/ scan.threw
               THEN ErrorOutcome(point, ErrorMessage("url.toLowerCase is not a function"))
               ELSE [pointId |-> point.id, lat |-> point.lat, lng |-> point.lng,
                     row |-> point.row, col |-> point.col, rank |-> scan.rank,
                     matchedPlace |-> scan.matchedPlace, places |-> OutcomePlaces(places),
                     error |-> NoError]

\* The outcome searchGridPoint resolves with, given what the provider answered
searchGridPoint(point, resp, targetDomain) ==
    CASE resp.kind = "reject" -> ErrorOutcome(point, ErrorMessage(resp.message))
      [] resp.kind = "notok" -> ErrorOutcome(point, ApiError(resp.status))
      [] resp.kind = "badjson" -> ErrorOutcome(point, ErrorMessage(resp.message))
      [] OTHER ->
           LET places == resp.places
               scan == IF targetDomain # <<>> /\ Len(places) > 0
                       THEN ScanPlaces(places, 1, targetDomain)
                       ELSE [rank |-> NullRank, matchedPlace |-> <<>>, threw |-> FALSE]
           IN  IF LogThrows(places) \/ scan.threw
               THEN ErrorOutcome(point, ErrorMessage("url.toLowerCase is not a function"))
               ELSE [pointId |-> point.id, lat |-> point.lat, lng |-> point.lng,
                     row |-> point.row, col |-> point.col, rank |-> scan.rank,
                     matchedPlace |-> scan.matchedPlace, places |-> OutcomePlaces(places),
                     error |-> NoError]

\* Mutant: a slice without its end
BatchSliceRest(points, i) == SubSeq(points, i + 1, Len(points))

\* gridPoints.slice(i, i + batchSize)
BatchSlice(points, i) == SubSeq(points, i + 1, Min(i + batchSize, Len(points)))

\* Mutant: the outcomes in reverse of the batch order
PromiseAllReversed(promises) == [k \in 1..Len(promises) |-> promises[Len(promises) + 1 - k][1]]

\* Promise.all: the outcomes of the settled promises, aligned with the batch
PromiseAll(promises) == [k \in 1..Len(promises) |-> promises[k][1]]

\* results.push(...batchResults)
PushResults(res, batchResults) == res \o batchResults

RECURSIVE SumRanks(_)
SumRanks(rs) == IF rs = <<>> THEN 0 ELSE rs[1].rank + SumRanks(Tail(rs))

\* Mutant: each band counts only the ranks above the band below it
CountUpToExclusive(rs, limit) ==
    LET below == IF limit = 3 THEN 0 ELSE IF limit = 10 THEN 3 ELSE 10
    IN  Cardinality({k \in 1..Len(rs) : rs[k].rank > below /\ rs[k].rank <= limit})

\* Mutant: the band without its upper end
CountUpToStrict(rs, limit) == Cardinality({k \in 1..Len(rs) : rs[k].rank < limit})

CountUpTo(rs, limit) == Cardinality({k \in 1..Len(rs) : rs[k].rank <= limit})

\* Mutant: the quotient truncated
RoundDivDown(x, y) == x \div y

\* Math.round(x / y) for x >= 0, y > 0
RoundDiv(x, y) == (2 * x + y) \div (2 * y)

\* Mutant: the percentage truncated
PercentFloor(count, total) == (count * 100) \div total

Percent(count, total) == RoundDiv(count * 100, total)

NoSummary ==
    [avgRank |-> NullRank, foundCount |-> 0, notFoundCount |-> 0, top3Count |-> 0,
     top3Percent |-> 0, top10Count |-> 0, top10Percent |-> 0, top20Count |-> 0,
     top20Percent |-> 0]

\* Mutant: the found points as the denominator of the percentages
SummaryOverFound(res, totalPoints) ==
    LET rankedResults == SelectSeq(res, LAMBDA o : o.rank # NullRank)
        found == Len(rankedResults)
        top3 == CountUpTo(rankedResults, 3)
        top10 == CountUpTo(rankedResults, 10)
        top20 == CountUpTo(rankedResults, 20)
    IN  IF found = 0 THEN [NoSummary EXCEPT !.notFoundCount = totalPoints]
        ELSE [avgRank |-> RoundDiv(SumRanks(rankedResults) * 10, found),
              foundCount |-> found,
              notFoundCount |-> totalPoints - found,
              top3Count |-> top3, top3Percent |-> Percent(top3, found),
              top10Count |-> top10, top10Percent |-> Percent(top10, found),
              top20Count |-> top20, top20Percent |-> Percent(top20, found)]

\* The summary object of the response; avgRank in tenths
Summary(res, totalPoints) ==
    LET rankedResults == SelectSeq(res, LAMBDA o : o.rank # NullRank)
        found == Len(rankedResults)
        top3 == CountUpTo(rankedResults, 3)
        top10 == CountUpTo(rankedResults, 10)
        top20 == CountUpTo(rankedResults, 20)
    IN  [avgRank |-> IF found > 0 THEN RoundDiv(SumRanks(rankedResults) * 10, found) ELSE NullRank,
         foundCount |-> found,
         notFoundCount |-> totalPoints - found,
         top3Count |-> top3, top3Percent |-> Percent(top3, totalPoints),
         top10Count |-> top10, top10Percent |-> Percent(top10, totalPoints),
         top20Count |-> top20, top20Percent |-> Percent(top20, totalPoints)]

\* userCredits.get(userId) || 0
GetCredits(credits, userId) == IF userId \in DOMAIN credits THEN credits[userId] ELSE 0

ensureCredits(credits, userId) ==
    IF userId \in DOMAIN credits THEN credits ELSE (userId :> FREE_CREDITS) @@ credits

\* Mutant: the remaining credits computed but not stored
DeductCreditForgotten(credits, userId) == credits

\* userCredits.set(userId, remaining - 1)
DeductCredit(credits, userId) == (userId :> (GetCredits(credits, userId) - 1)) @@ credits

\* An HTTP response without a result payload
ErrorResponse(status, message) ==
    [status |-> status, error |-> message, totalPoints |-> 0, summary |-> NoSummary,
     results |-> <<>>]

NoResponse == ErrorResponse(0, "")

\* requireCredits: the response it sends, or NoResponse when it calls next()
requireCredits(user, credits) ==
    IF user = NoUser THEN ErrorResponse(401, "Unauthorized")
    ELSE IF GetCredits(ensureCredits(credits, user), user) <= 0
    THEN ErrorResponse(403, "Free credits exhausted. Please upgrade.")
    ELSE NoResponse

\* !keyword || typeof keyword !== 'string'
KeywordRejected(keyword) == keyword = Undefined \/ keyword = <<>> \/ keyword = NonString

\* !gridPoints || !Array.isArray(gridPoints) || gridPoints.length === 0
GridPointsRejected(b) == b.gridPointsKind # "array" \/ Len(b.gridPoints) = 0

\* The handler up to the batch loop: the response it sends, or NoResponse
Preflight(b, key) ==
    IF b.user = NoUser THEN ErrorResponse(401, "Unauthorized")
    ELSE IF GridPointsRejected(b) THEN ErrorResponse(400, "Missing or invalid grid points")
    ELSE IF KeywordRejected(b.keyword) THEN ErrorResponse(400, "Missing search keyword")
    ELSE IF ~key THEN ErrorResponse(500, "Serper API key not configured")
    ELSE IF b.targetWebsite = NonString THEN ErrorResponse(500, "Failed to perform grid search")
    ELSE NoResponse

----------------------------------------------------------------------------
(* The maps provider, as seen by one grid search *)

Place(title, website, position) == [title |-> title, website |-> website, position |-> position]

PLACES_FOUND == <<Place("Other", URL_OTHER, 1), Place("Ex", URL_TARGET, 2), Place("Other", URL_OTHER, 3)>>
PLACES_NONE == <<Place("Other", URL_OTHER, 1), Place("Stall", Undefined, 2)>>
PLACES_POS == <<Place("Other", URL_OTHER, 0), Place("Shop", URL_SHOP, 7)>>
PLACES_LOOSE == <<Place("NotEx", URL_NOTEX, 1)>>
PLACES_XCO == <<Place("Other", URL_OTHER, 1), Place("Other", URL_OTHER, 2), Place("X", URL_XCO, 0)>>
PLACES_BAD == <<Place("Odd", NonString, 1), Place("Ex", URL_TARGET, 2)>>

OkResponse(places) == [kind |-> "ok", status |-> 200, message |-> "", places |-> places]
FailResponse(kind, status, message) == [kind |-> kind, status |-> status, message |-> message, places |-> <<>>]

\* What the provider may answer to one request: fetch rejects, a non-2xx status,
\* a body that is no JSON, or a list of places
RespList ==
    <<OkResponse(PLACES_FOUND), FailResponse("reject", 0, "fetch failed"),
      OkResponse(PLACES_NONE), FailResponse("notok", 429, ""),
      OkResponse(PLACES_POS), FailResponse("badjson", 200, "Unexpected token"),
      OkResponse(PLACES_LOOSE), FailResponse("reject", 0, ""),
      OkResponse(PLACES_BAD), OkResponse(PLACES_XCO), OkResponse(<<>>)>>

\* The provider's answer for a point: scenario 0 answers every point alike, the
\* others walk through RespList from a different start each
Provider(scenario, point) ==
    IF scenario = 0 THEN RespList[1]
    ELSE RespList[(((point.row + 2) * 5 + point.col + 2 + scenario) % Len(RespList)) + 1]

----------------------------------------------------------------------------
(* POST /api/grid-search: the handler *)

Users == {"u1"}
Requests == {1, 2}

GridPointInputs ==
    {[kind |-> "missing", points |-> <<>>], [kind |-> "notArray", points |-> <<>>]}
    \cup {[kind |-> "array", points |-> PointList(n, order)] :
             n \in 0..MaxPoints, order \in {"asc", "desc"}}

KeywordInputs == {Undefined, NonString, <<>>, KW_BLANK, KW_PIZZA}

TargetInputs == {Undefined, NonString, <<>>, HTTPS_, URL_TARGET}

Bodies(users) ==
    {[user |-> u, gridPointsKind |-> g.kind, gridPoints |-> g.points, keyword |-> k,
      targetWebsite |-> t, scenario |-> sc] :
        u \in users \cup {NoUser}, g \in GridPointInputs, k \in KeywordInputs,
        t \in TargetInputs, sc \in 0..MaxScenario}

IdleBody ==
    [user |-> NoUser, gridPointsKind |-> "missing", gridPoints |-> <<>>, keyword |-> Undefined,
     targetWebsite |-> Undefined, scenario |-> 0]

TargetDomain(r) == normalizeWebsite(body[r].targetWebsite)

\* Number of provider requests of request r that are in flight
InFlight(r) == Cardinality({k \in 1..Len(calls[r]) : calls[r][k] = <<>>})

GridInit ==
    /\ apiKey \in BOOLEAN
    /\ sessions = {}
    /\ \E known \in SUBSET Users, c \in (0..MaxInitCredits) \cup {FREE_CREDITS} :
          userCredits = [u \in known |-> c]
    /\ pc = [r \in Requests |-> "idle"]
    /\ body = [r \in Requests |-> IdleBody]
    /\ batchStart = [r \in Requests |-> 0]
    /\ calls = [r \in Requests |-> <<>>]
    /\ results = [r \in Requests |-> <<>>]
    /\ response = [r \in Requests |-> NoResponse]
    /\ issued = [r \in Requests |-> <<>>]
    /\ nbatches = [r \in Requests |-> 0]

\* GET /auth/magic with a valid token: the session is created and credits ensured
Login(u) ==
    /\ u \notin sessions
    /\ sessions' = sessions \cup {u}
    /\ userCredits' = ensureCredits(userCredits, u)
    /\ UNCHANGED <<apiKey, pc, body, batchStart, calls, results, response, issued, nbatches>>
    /\ UNCHANGED <<trackVars, clientVars, schedVars>>

\* Mutant: the requests of the following batch are sent along
DispatchBatchAhead(r, points, i, sent, count) ==
    LET batch == BatchSlice(points, i)
        ahead == BatchSlice(points, i + batchSize)
    IN  /\ batchStart' = [batchStart EXCEPT ![r] = i]
        /\ calls' = [calls EXCEPT ![r] = [k \in 1..Len(batch) |-> <<>>]]
        /\ issued' = [issued EXCEPT ![r] = sent \o [k \in 1..(Len(batch) + Len(ahead)) |-> i + k]]
        /\ nbatches' = [nbatches EXCEPT ![r] = count + 1]

\* batch.map(searchGridPoint): one fetch is sent for every point of the batch;
\* sent and count are the requests and batches of this run so far
DispatchBatch(r, points, i, sent, count) ==
    LET batch == BatchSlice(points, i)
    IN  /\ batchStart' = [batchStart EXCEPT ![r] = i]
        /\ calls' = [calls EXCEPT ![r] = [k \in 1..Len(batch) |-> <<>>]]
        /\ issued' = [issued EXCEPT ![r] = sent \o [k \in 1..Len(batch) |-> i + k]]
        /\ nbatches' = [nbatches EXCEPT ![r] = count + 1]

\* A request arrives: requireCredits, then the handler up to its first await
HandleRequest(r, b) ==
    /\ body' = [body EXCEPT ![r] = b]
    /\ userCredits' = IF b.user = NoUser THEN userCredits ELSE ensureCredits(userCredits, b.user)
    /\ LET gate == requireCredits(b.user, userCredits)
           sent == IF gate # NoResponse THEN gate ELSE Preflight(b, apiKey)
       IN  IF sent # NoResponse
           THEN /\ response' = [response EXCEPT ![r] = sent]
                /\ pc' = [pc EXCEPT ![r] = "done"]
                /\ batchStart' = [batchStart EXCEPT ![r] = 0]
                /\ calls' = [calls EXCEPT ![r] = <<>>]
                /\ issued' = [issued EXCEPT ![r] = <<>>]
                /\ nbatches' = [nbatches EXCEPT ![r] = 0]
           ELSE /\ response' = [response EXCEPT ![r] = NoResponse]
                /\ pc' = [pc EXCEPT ![r] = "batch"]
                /\ DispatchBatch(r, b.gridPoints, 0, <<>>, 0)
    /\ UNCHANGED <<apiKey, sessions, results>>
    /\ UNCHANGED <<trackVars, clientVars, schedVars>>

GridSearchRequest(r) == pc[r] = "idle" /\ \E b \in Bodies(sessions) : HandleRequest(r, b)

\* The well-formed bodies of signed-in users, of one batch and of two
ConcurrentBodies(users) ==
    {b \in Bodies(users) :
        /\ b.user # NoUser
        /\ b.keyword = KW_PIZZA
        /\ b.targetWebsite = URL_TARGET
        /\ b.scenario = 1
        /\ b.gridPoints \in {PointList(1, "asc"), PointList(batchSize + 1, "asc")}}

\* A request arrives while any other request may be under way
ConcurrentRequest(r) ==
    /\ pc[r] = "idle"
    /\ sessions # {}
    /\ \E b \in ConcurrentBodies(sessions) : HandleRequest(r, b)

\* Mutant: a failed request is sent once more
ProviderRespondsRetry(r, k) ==
    /\ pc[r] = "batch"
    /\ k \in 1..Len(calls[r])
    /\ calls[r][k] = <<>>
    /\ LET point == BatchSlice(body[r].gridPoints, batchStart[r])[k]
           outcome == searchGridPoint(point, Provider(body[r].scenario, point), TargetDomain(r))
           sentOnce == Cardinality({i \in 1..Len(issued[r]) : issued[r][i] = batchStart[r] + k}) = 1
       IN  IF outcome.error # NoError /\ sentOnce
           THEN /\ issued' = [issued EXCEPT ![r] = Append(@, batchStart[r] + k)]
                /\ UNCHANGED calls
           ELSE /\ calls' = [calls EXCEPT ![r][k] = <<outcome>>]
                /\ UNCHANGED issued
    /\ UNCHANGED <<apiKey, sessions, userCredits, pc, body, batchStart, results,
                   response, nbatches>>
    /\ UNCHANGED <<trackVars, clientVars, schedVars>>

\* The provider answers the request for the k-th point of the current batch and
\* searchGridPoint runs to its return
ProviderResponds(r, k) ==
    /\ pc[r] = "batch"
    /\ k \in 1..Len(calls[r])
    /\ calls[r][k] = <<>>
    /\ LET point == BatchSlice(body[r].gridPoints, batchStart[r])[k]
       IN  calls' = [calls EXCEPT ![r][k] =
                        <<searchGridPoint(point, Provider(body[r].scenario, point), TargetDomain(r))>>]
    /\ UNCHANGED <<apiKey, sessions, userCredits, pc, body, batchStart, results,
                   response, issued, nbatches>>
    /\ UNCHANGED <<trackVars, clientVars, schedVars>>

ProviderSettles(r) == \E k \in 1..Len(calls[r]) : ProviderResponds(r, k)

\* Promise.all of a batch that is not the last resolves: push, then the 200 ms timer
GatherAndPause(r) ==
    /\ pc[r] = "batch"
    /\ InFlight(r) = 0
    /\ batchStart[r] + batchSize < Len(body[r].gridPoints)
    /\ results' = [results EXCEPT ![r] = PushResults(@, PromiseAll(calls[r]))]
    /\ calls' = [calls EXCEPT ![r] = <<>>]
    /\ pc' = [pc EXCEPT ![r] = "pause"]
    /\ UNCHANGED <<apiKey, sessions, userCredits, body, batchStart, response, issued,
                   nbatches>>
    /\ UNCHANGED <<trackVars, clientVars, schedVars>>

\* The timer fires: the loop advances and the next batch is dispatched
PauseElapsed(r) ==
    /\ pc[r] = "pause"
    /\ DispatchBatch(r, body[r].gridPoints, batchStart[r] + batchSize, issued[r], nbatches[r])
    /\ pc' = [pc EXCEPT ![r] = "batch"]
    /\ UNCHANGED <<apiKey, sessions, userCredits, body, results, response>>
    /\ UNCHANGED <<trackVars, clientVars, schedVars>>

\* Promise.all of the last batch resolves: push, summary, credit deduction, res.json
GatherAndRespond(r) ==
    /\ pc[r] = "batch"
    /\ InFlight(r) = 0
    /\ ~(batchStart[r] + batchSize < Len(body[r].gridPoints))
    /\ LET all == PushResults(results[r], PromiseAll(calls[r]))
           total == Len(body[r].gridPoints)
       IN  /\ results' = [results EXCEPT ![r] = all]
           /\ response' = [response EXCEPT ![r] =
                             [status |-> 200, error |-> "", totalPoints |-> total,
                              summary |-> Summary(all, total), results |-> all]]
    /\ userCredits' = DeductCredit(userCredits, body[r].user)
    /\ calls' = [calls EXCEPT ![r] = <<>>]
    /\ pc' = [pc EXCEPT ![r] = "done"]
    /\ UNCHANGED <<apiKey, sessions, body, batchStart, issued, nbatches>>
    /\ UNCHANGED <<trackVars, clientVars, schedVars>>

----------------------------------------------------------------------------
(* The summary of a grid search, over outcomes of any ranks *)

MaxOutcomes == 4

\* rank values on both sides of each band's limit, and null
RankInputs == {NullRank, 1, 3, 4, 5, 10, 11, 15, 20, 21}

\* The outcome of a point whose place was found at rank, or was not found
RankedOutcome(point, rank) == [ErrorOutcome(point, NoError) EXCEPT !.rank = rank]

\* results.push: one more outcome of the run
PushOutcome ==
    /\ response[1] = NoResponse
    /\ Len(results[1]) < MaxOutcomes
    /\ \E rank \in RankInputs :
          results' = [results EXCEPT ![1] =
                         Append(@, RankedOutcome(LatticePoint(Len(@) + 1), rank))]
    /\ UNCHANGED <<apiKey, sessions, userCredits, pc, body, batchStart, calls, response,
                   issued, nbatches>>
    /\ UNCHANGED <<trackVars, clientVars, schedVars>>

\* The handler after its batch loop: the summary and the response
Summarise ==
    /\ response[1] = NoResponse
    /\ results[1] # <<>>
    /\ response' = [response EXCEPT ![1] =
                       [status |-> 200, error |-> "", totalPoints |-> Len(results[1]),
                        summary |-> Summary(results[1], Len(results[1])),
                        results |-> results[1]]]
    /\ UNCHANGED <<apiKey, sessions, userCredits, pc, body, batchStart, calls, results,
                   issued, nbatches>>
    /\ UNCHANGED <<trackVars, clientVars, schedVars>>

----------------------------------------------------------------------------
(* Dashboard trackers: pure parts (dashboard-src/server/serper.ts) *)

MAX_PAGES == 5

\* number | null for page numbers and positions, which are never 0 when set
Null == 0

KEY_MISSING == "SERPER_API_KEY environment variable is not set"

\* The text of an error: the page it names (Null when it names none) and the cause
ErrorText(p, cause) == [page |-> p, cause |-> cause]
NoErrorText == ErrorText(Null, "")

\* The host new URL(u) parses, <<>> when the constructor throws
UrlHost(u) ==
    LET rest == IF startsWith(u, HTTPS_) THEN StripPrefix(u, HTTPS_)
                ELSE IF startsWith(u, HTTP_) THEN StripPrefix(u, HTTP_)
                ELSE <<>>
    IN  SplitFirst(SplitFirst(SplitFirst(SplitFirst(rest, "/"), "?"), "#"), ":")

extractDomain(url) ==
    LET normalizedUrl == IF startsWith(url, <<"h", "t", "t", "p">>) THEN url ELSE HTTP_ \o url
        hostname == UrlHost(normalizedUrl)
    IN  IF hostname # <<>>
        THEN StripPrefix(toLowerCase(hostname), WWW_)
        ELSE StripPrefix(toLowerCase(url), WWW_)

\* Mutant: a subdomain relation in either direction
domainMatchesEitherWay(resultLink, targetDomain) ==
    IF resultLink = Undefined \/ resultLink = <<>> THEN FALSE
    ELSE LET resultDomain == extractDomain(resultLink)
             targetDomainClean == extractDomain(targetDomain)
         IN  \/ resultDomain = targetDomainClean
             \/ endsWith(resultDomain, <<".">> \o targetDomainClean)
             \/ endsWith(targetDomainClean, <<".">> \o resultDomain)

\* Mutant: equal hosts only
domainMatchesExact(resultLink, targetDomain) ==
    IF resultLink = Undefined \/ resultLink = <<>> THEN FALSE
    ELSE extractDomain(resultLink) = extractDomain(targetDomain)

domainMatches(resultLink, targetDomain) ==
    IF resultLink = Undefined \/ resultLink = <<>> THEN FALSE
    ELSE LET resultDomain == extractDomain(resultLink)
             targetDomainClean == extractDomain(targetDomain)
         IN  resultDomain = targetDomainClean \/ endsWith(resultDomain, <<".">> \o targetDomainClean)

\* Mutant: the scan starts at the second item
FirstMatchSkipsFirst(items, targetDomain) ==
    IF \E k \in 2..Len(items) : domainMatches(items[k].link, targetDomain)
    THEN CHOOSE k \in 2..Len(items) :
            /\ domainMatches(items[k].link, targetDomain)
            /\ \A j \in 2..(k - 1) : ~domainMatches(items[j].link, targetDomain)
    ELSE 0

\* Index of the first item of a page whose link matches, 0 when none does
FirstMatch(items, targetDomain) ==
    IF \E k \in 1..Len(items) : domainMatches(items[k].link, targetDomain)
    THEN CHOOSE k \in 1..Len(items) :
            /\ domainMatches(items[k].link, targetDomain)
            /\ \A j \in 1..(k - 1) : ~domainMatches(items[j].link, targetDomain)
    ELSE 0

\* Mutant: the position within the page
OverallPositionOnPage(count, k) == k

\* overallPosition of the item at 1-based index k, count items having come before its page
OverallPosition(count, k) == count + k

FoundResult(p, k, count, item) ==
    [found |-> TRUE, page |-> p, positionOnPage |-> k,
     overallPosition |-> OverallPosition(count, k), url |-> item.link, title |-> item.title,
     error |-> NoErrorText]

\* Mutant: the not-found result keeps positional fields
NotFoundResultPositioned(err) ==
    [found |-> FALSE, page |-> 1, positionOnPage |-> 1, overallPosition |-> 1,
     url |-> <<>>, title |-> "", error |-> err]

NotFoundResult(err) ==
    [found |-> FALSE, page |-> Null, positionOnPage |-> Null, overallPosition |-> Null,
     url |-> <<>>, title |-> "", error |-> err]

\* Mutant: the failure reported without its page
PageFailureNoPage(p, cause) == NotFoundResult(ErrorText(Null, cause))

\* error instanceof Error ? error.message : "Unknown error", in `Failed at page ${page}: ...`
PageFailure(p, cause) == NotFoundResult(ErrorText(p, cause))

\* The matches of one page of places, count places having come before it
RECURSIVE PageMatches(_, _, _, _)
PageMatches(places, i, count, targetDomain) ==
    IF i > Len(places) THEN <<>>
    ELSE LET rest == PageMatches(places, i + 1, count, targetDomain)
         IN  IF places[i].link # Undefined /\ domainMatches(places[i].link, targetDomain)
             THEN <<[title |-> places[i].title, website |-> places[i].link,
                     position |-> count + i]>> \o rest
             ELSE rest

\* Mutant: the scan keeps its first match only
LocalResultFirstMatch(matches, all) ==
    [found |-> Len(matches) > 0, totalPlaces |-> Len(all),
     matchingPlaces |-> SubSeq(matches, 1, Min(1, Len(matches))), error |-> NoErrorText]

\* The value trackLocalRanking returns from its try block
LocalResult(matches, all) ==
    [found |-> Len(matches) > 0, totalPlaces |-> Len(all), matchingPlaces |-> matches,
     error |-> NoErrorText]

\* The value trackLocalRanking returns from its catch block
LocalFailure(matches, all, cause) ==
    [found |-> FALSE, totalPlaces |-> Len(all), matchingPlaces |-> matches,
     error |-> ErrorText(Null, cause)]

\* The entry a rankings check pushes for a keyword whose tracker returned
OrganicEntry(keyword, result) ==
    [keyword |-> keyword, found |-> result.found, position |-> result.overallPosition,
     page |-> result.page, positionOnPage |-> result.positionOnPage, url |-> result.url,
     title |-> result.title, error |-> result.error]

LocalEntry(keyword, result) ==
    [keyword |-> keyword, found |-> result.found, totalPlaces |-> result.totalPlaces,
     matchingPlaces |-> result.matchingPlaces, error |-> result.error]

\* The entries pushed by the catch blocks of the rankings checks
OrganicCatchEntry(keyword, message) ==
    [keyword |-> keyword, found |-> FALSE, position |-> Null, page |-> Null,
     positionOnPage |-> Null, url |-> <<>>, title |-> "", error |-> ErrorText(Null, message)]

LocalCatchEntry(keyword, message) ==
    [keyword |-> keyword, found |-> FALSE, totalPlaces |-> 0, matchingPlaces |-> <<>>,
     error |-> ErrorText(Null, message)]

----------------------------------------------------------------------------
(* The search provider, as seen by one tracker run *)

Item(link, title) == [link |-> link, title |-> title]

ITEM_T == Item(URL_TARGET, "Ex")
ITEM_O == Item(URL_OTHER, "Other")
ITEM_S == Item(URL_SHOP, "Shop")
ITEM_U == Item(Undefined, "Stall")

PageOk(items) == [ok |-> TRUE, isError |-> FALSE, message |-> "", items |-> items]
\* A fetch that throws: an Error with a message, or some other value
PageFail(isError, message) == [ok |-> FALSE, isError |-> isError, message |-> message, items |-> <<>>]

PageFailures == {PageFail(TRUE, "Serper API error: 500 Internal Server Error"), PageFail(FALSE, "")}

OrganicPages ==
    {PageOk(<<>>), PageOk(<<ITEM_O>>), PageOk(<<ITEM_O, ITEM_O>>), PageOk(<<ITEM_O, ITEM_T>>),
     PageOk(<<ITEM_T, ITEM_O>>), PageOk(<<ITEM_O, ITEM_O, ITEM_S>>)} \cup PageFailures

LocalPages ==
    {PageOk(<<>>), PageOk(<<ITEM_O>>), PageOk(<<ITEM_T, ITEM_U, ITEM_S>>)} \cup PageFailures

\* error instanceof Error ? error.message : "Unknown error"
CauseOf(resp) == IF resp.isError THEN resp.message ELSE "Unknown error"

----------------------------------------------------------------------------
(* Links and targets for the domain comparison *)

EXAMPLE_COM == <<"e", "x", "a", "m", "p", "l", "e", ".", "c", "o", "m">>
OTHER_COM == <<"o", "t", "h", "e", "r", ".", "c", "o", "m">>
BLOG_ == <<"b", "l", "o", "g", ".">>

LINK_BLOG == HTTPS_ \o BLOG_ \o EXAMPLE_COM
LINK_BARE == HTTPS_ \o EXAMPLE_COM
LINK_WWW == WWW_ \o EXAMPLE_COM
LINK_NOT == HTTPS_ \o <<"n", "o", "t", "e", "x", "a", "m", "p", "l", "e", ".", "c", "o", "m", "/", "p", "a", "g", "e">>
LINK_EVIL == HTTPS_ \o EXAMPLE_COM \o <<".", "e", "v", "i", "l", ".", "i", "o">>
LINK_MIXED == HTTP_ \o <<"W", "W", "W", ".", "E", "x", "a", "m", "p", "l", "e", ".", "C", "O", "M", ":", "8", "0", "8", "0", "/", "a", "?", "b">>

TARGET_WWW == HTTPS_ \o WWW_ \o EXAMPLE_COM \o <<"/">>
TARGET_MIXED == <<"E", "x", "a", "m", "p", "l", "e", ".", "C", "O", "M">>
TARGET_BLOG == BLOG_ \o EXAMPLE_COM

MatchLinks == {LINK_BLOG, LINK_BARE, LINK_WWW, LINK_NOT, LINK_EVIL, LINK_MIXED, Undefined}
MatchTargets == {EXAMPLE_COM, OTHER_COM, TARGET_WWW, TARGET_MIXED, TARGET_BLOG}

----------------------------------------------------------------------------
(* Project rankings checks and the trackers they drive *)

KeywordLists == {<<>>, <<"pizza">>, <<"pizza", "pasta">>}
ProjectTargets == {URL_TARGET}

NoCheck == [mode |-> "none", keywords |-> <<>>, target |-> <<>>]

Returned(value) == [thrown |-> FALSE, value |-> value, message |-> ""]
Thrown(message) == [thrown |-> TRUE, value |-> <<>>, message |-> message]

TrackIdle ==
    /\ tpc = "idle" /\ check = NoCheck /\ kwIndex = 0 /\ page = 0 /\ totalPositionCount = 0
    /\ matchingPlaces = <<>> /\ allPlaces = <<>> /\ pagesSeen = <<>> /\ pageRequests = <<>>
    /\ trackResult = <<>> /\ rankings = <<>> /\ stored = <<>> /\ checkResponse = 0

\* POST /api/projects/:id/rankings/check and .../local-rankings/check, up to the loop
StartCheck(mode, keywords, target) ==
    /\ check' = [mode |-> mode, keywords |-> keywords, target |-> target]
    /\ IF Len(keywords) = 0
       THEN /\ checkResponse' = 400
            /\ tpc' = "done"
            /\ kwIndex' = 0
       ELSE /\ checkResponse' = 0
            /\ tpc' = "call"
            /\ kwIndex' = 1
    /\ rankings' = <<>>
    /\ UNCHANGED <<page, totalPositionCount, matchingPlaces, allPlaces, pagesSeen,
                   pageRequests, trackResult, stored>>
    /\ UNCHANGED <<gridVars, clientVars, schedVars>>

StartOrganicCheck ==
    /\ tpc = "idle"
    /\ \E keywords \in KeywordLists, target \in ProjectTargets :
          StartCheck("organic", keywords, target)

StartLocalCheck ==
    /\ tpc = "idle"
    /\ \E keywords \in KeywordLists, target \in ProjectTargets :
          StartCheck("local", keywords, target)

\* The locals of a tracker run at its start, and the request for page 1 or the
\* failure to send it
BeginRun(failure) ==
    /\ page' = 1
    /\ totalPositionCount' = 0
    /\ matchingPlaces' = <<>>
    /\ allPlaces' = <<>>
    /\ pagesSeen' = <<>>
    /\ IF apiKey
       THEN pageRequests' = <<1>> /\ trackResult' = <<>> /\ tpc' = "wait"
       ELSE pageRequests' = <<>> /\ trackResult' = <<failure>> /\ tpc' = "collect"
    /\ UNCHANGED <<check, kwIndex, rankings, stored, checkResponse>>
    /\ UNCHANGED <<gridVars, clientVars, schedVars>>

\* trackKeywordRanking is called: fetchSerperResults throws without a key, inside the try
CallTrackKeywordRanking ==
    /\ tpc = "call"
    /\ check.mode = "organic"
    /\ BeginRun(Returned(PageFailure(1, KEY_MISSING)))

\* trackLocalRanking is called: it throws without a key, before its try
CallTrackLocalRanking ==
    /\ tpc = "call"
    /\ check.mode = "local"
    /\ BeginRun(Thrown(KEY_MISSING))

\* The tracker returns value
Return(value) ==
    /\ trackResult' = <<Returned(value)>>
    /\ tpc' = "collect"
    /\ UNCHANGED <<page, pageRequests>>

\* Mutant: the loop allows one page more
NextPageOrOneMore(value) ==
    IF page < MAX_PAGES + 1
    THEN /\ page' = page + 1
         /\ pageRequests' = Append(pageRequests, page + 1)
         /\ UNCHANGED <<trackResult, tpc>>
    ELSE Return(value)

\* The tracker's loop goes on to the next page, or ends with value
NextPageOr(value) ==
    IF page < MAX_PAGES
    THEN /\ page' = page + 1
         /\ pageRequests' = Append(pageRequests, page + 1)
         /\ UNCHANGED <<trackResult, tpc>>
    ELSE Return(value)

\* fetchSerperResults settles and trackKeywordRanking runs to its next await or return
OrganicPageArrives(resp) ==
    /\ pagesSeen' = Append(pagesSeen, resp)
    /\ LET k == FirstMatch(resp.items, check.target)
       IN  IF ~resp.ok
           THEN Return(PageFailure(page, CauseOf(resp))) /\ UNCHANGED totalPositionCount
           ELSE IF k > 0
           THEN /\ totalPositionCount' = totalPositionCount + k
                /\ Return(FoundResult(page, k, totalPositionCount, resp.items[k]))
           ELSE /\ totalPositionCount' = totalPositionCount + Len(resp.items)
                /\ IF Len(resp.items) = 0
                   THEN Return(NotFoundResult(NoErrorText))
                   ELSE NextPageOr(NotFoundResult(NoErrorText))
    /\ UNCHANGED <<check, kwIndex, matchingPlaces, allPlaces, rankings, stored, checkResponse>>
    /\ UNCHANGED <<gridVars, clientVars, schedVars>>

OrganicPage ==
    /\ tpc = "wait"
    /\ check.mode = "organic"
    /\ \E resp \in OrganicPages : OrganicPageArrives(resp)

\* fetchPlacesPage settles and trackLocalRanking runs to its next await or return
LocalPageArrives(resp) ==
    /\ pagesSeen' = Append(pagesSeen, resp)
    /\ IF ~resp.ok
       THEN /\ Return(LocalFailure(matchingPlaces, allPlaces, CauseOf(resp)))
            /\ UNCHANGED <<totalPositionCount, matchingPlaces, allPlaces>>
       ELSE IF Len(resp.items) = 0
       THEN /\ Return(LocalResult(matchingPlaces, allPlaces))
            /\ UNCHANGED <<totalPositionCount, matchingPlaces, allPlaces>>
       ELSE LET matches == matchingPlaces \o PageMatches(resp.items, 1, totalPositionCount, check.target)
                all == allPlaces \o resp.items
            IN  /\ totalPositionCount' = totalPositionCount + Len(resp.items)
                /\ matchingPlaces' = matches
                /\ allPlaces' = all
                /\ NextPageOr(LocalResult(matches, all))
    /\ UNCHANGED <<check, kwIndex, rankings, stored, checkResponse>>
    /\ UNCHANGED <<gridVars, clientVars, schedVars>>

LocalPage ==
    /\ tpc = "wait"
    /\ check.mode = "local"
    /\ \E resp \in LocalPages : LocalPageArrives(resp)

\* The entry the check pushes for the keyword whose tracker just settled
EntryFor(mode, keyword, settled) ==
    IF mode = "organic"
    THEN IF settled.thrown THEN OrganicCatchEntry(keyword, settled.message)
         ELSE OrganicEntry(keyword, settled.value)
    ELSE IF settled.thrown THEN LocalCatchEntry(keyword, settled.message)
         ELSE LocalEntry(keyword, settled.value)

\* The check resumes: it pushes the entry, then tracks the next keyword or saves
\* the rankings and answers
Collect ==
    /\ tpc = "collect"
    /\ LET all == Append(rankings, EntryFor(check.mode, check.keywords[kwIndex], trackResult[1]))
       IN  /\ rankings' = all
           /\ IF kwIndex < Len(check.keywords)
              THEN /\ kwIndex' = kwIndex + 1
                   /\ tpc' = "call"
                   /\ UNCHANGED <<stored, checkResponse>>
              ELSE /\ stored' = Append(stored, [mode |-> check.mode, rankings |-> all])
                   /\ checkResponse' = 200
                   /\ tpc' = "done"
                   /\ UNCHANGED kwIndex
    /\ UNCHANGED <<check, page, totalPositionCount, matchingPlaces, allPlaces, pagesSeen,
                   pageRequests, trackResult>>
    /\ UNCHANGED <<gridVars, clientVars, schedVars>>

\* A rankings check of a project with one keyword and any of the targets
StartMatchCheck ==
    /\ tpc = "idle"
    /\ \E target \in MatchTargets : StartCheck("organic", <<"pizza">>, target)

\* A results page with a single item
SingleItemPage ==
    /\ tpc = "wait"
    /\ check.mode = "organic"
    /\ \E link \in MatchLinks : OrganicPageArrives(PageOk(<<Item(link, "Result")>>))

----------------------------------------------------------------------------
(* The map page: the grid of points around the selected location             *)
(* (client/src/pages/map-page.tsx).  Coordinates are in hundred-thousandths  *)
(* of a degree, lengths in whole metres.                                     *)

\* Math.cos(centerLat * Math.PI / 180), in thousandths, of the latitudes used
CosMilli(lat) ==
    CASE lat = 0 -> 1000
      [] lat = 4071280 -> 758
      [] lat = 0 - 3386880 -> 830
      [] OTHER -> 1000

\* distanceUnit === "miles" ? spacing * 1609.34 : spacing
SpacingInMeters(spacing, distanceUnit) ==
    IF distanceUnit = "miles" THEN (spacing * 160934) \div 100 ELSE spacing

\* Mutant: the center is flagged only in a grid of odd size
calculateGridPointsOddCenter(centerLat, centerLng, spacing, gridSize, distanceUnit) ==
    LET half == gridSize \div 2
        side == 2 * half + 1
        spacingInMeters == SpacingInMeters(spacing, distanceUnit)
        latOffset == (spacingInMeters * 100000) \div 111320
        lngOffset == (spacingInMeters * 100000) \div ((111320 * CosMilli(centerLat)) \div 1000)
    IN  [k \in 1..(side * side) |->
            LET row == ((k - 1) \div side) - half
                col == ((k - 1) % side) - half
            IN  [id |-> <<row, col>>,
                 lat |-> centerLat + (row * latOffset),
                 lng |-> centerLng + (col * lngOffset),
                 row |-> row, col |-> col, isSelected |-> TRUE,
                 isCenter |-> row = 0 /\ col = 0 /\ gridSize % 2 = 1]]

\* Mutant: the row loop ends one row early
calculateGridPointsShort(centerLat, centerLng, spacing, gridSize, distanceUnit) ==
    LET half == gridSize \div 2
        side == 2 * half + 1
    IN  [k \in 1..((side - 1) * side) |->
            LET row == ((k - 1) \div side) - half
                col == ((k - 1) % side) - half
            IN  [id |-> <<row, col>>, lat |-> centerLat, lng |-> centerLng, row |-> row,
                 col |-> col, isSelected |-> TRUE, isCenter |-> row = 0 /\ col = 0]]

\* The points of the grid, row by row from -half to half
calculateGridPoints(centerLat, centerLng, spacing, gridSize, distanceUnit) ==
    LET half == gridSize \div 2
        side == 2 * half + 1
        spacingInMeters == SpacingInMeters(spacing, distanceUnit)
        latOffset == (spacingInMeters * 100000) \div 111320
        lngOffset == (spacingInMeters * 100000) \div ((111320 * CosMilli(centerLat)) \div 1000)
    IN  [k \in 1..(side * side) |->
            LET row == ((k - 1) \div side) - half
                col == ((k - 1) % side) - half
            IN  [id |-> <<row, col>>,
                 lat |-> centerLat + (row * latOffset),
                 lng |-> centerLng + (col * lngOffset),
                 row |-> row, col |-> col, isSelected |-> TRUE,
                 isCenter |-> row = 0 /\ col = 0]]

CenterInputs ==
    {[lat |-> 0, lng |-> 0], [lat |-> 4071280, lng |-> 0 - 7400600],
     [lat |-> 0 - 3386880, lng |-> 15120930]}
SpacingInputs == {1, 5}
UnitInputs == {"meters", "miles"}
GridSizeInputs == 1..MaxGridSize

\* The grid configuration a fresh page starts with
DefaultGridConfig == [enabled |-> FALSE, distanceUnit |-> "miles", spacing |-> 5, gridSize |-> 7]

ClientIdle == markerPosition = <<>> /\ gridConfig = DefaultGridConfig /\ gridPoints = <<>>

\* The grid for a location under a configuration
GridFor(pos, config) ==
    calculateGridPoints(pos.lat, pos.lng, config.spacing, config.gridSize, config.distanceUnit)

\* A location is selected; the effect on markerPosition redraws an enabled grid
handleNavigate ==
    /\ \E pos \in CenterInputs :
          /\ markerPosition' = <<pos>>
          /\ gridPoints' = IF gridConfig.enabled THEN GridFor(pos, gridConfig) ELSE gridPoints
    /\ UNCHANGED gridConfig
    /\ UNCHANGED <<gridVars, trackVars, schedVars>>

handleShowGrid ==
    /\ markerPosition # <<>>
    /\ gridPoints' = GridFor(markerPosition[1], gridConfig)
    /\ gridConfig' = [gridConfig EXCEPT !.enabled = TRUE]
    /\ UNCHANGED markerPosition
    /\ UNCHANGED <<gridVars, trackVars, schedVars>>

\* The unit, spacing or size is changed; an enabled grid is redrawn
handleGridConfigChange ==
    /\ \E unit \in UnitInputs, spacing \in SpacingInputs, gridSize \in GridSizeInputs :
          LET newConfig == [gridConfig EXCEPT !.distanceUnit = unit, !.spacing = spacing,
                                              !.gridSize = gridSize]
          IN  /\ newConfig # gridConfig
              /\ gridConfig' = newConfig
              /\ gridPoints' = IF gridConfig.enabled /\ markerPosition # <<>>
                               THEN GridFor(markerPosition[1], newConfig)
                               ELSE gridPoints
    /\ UNCHANGED markerPosition
    /\ UNCHANGED <<gridVars, trackVars, schedVars>>

handleToggleGridPoint ==
    /\ \E k \in 1..Len(gridPoints) :
          LET toggled == [gridPoints EXCEPT ![k].isSelected = ~@]
          IN  /\ Cardinality({j \in 1..Len(toggled) : ~toggled[j].isSelected}) <= MaxUnselected
              /\ gridPoints' = toggled
    /\ UNCHANGED <<markerPosition, gridConfig>>
    /\ UNCHANGED <<gridVars, trackVars, schedVars>>

handleCancelGrid ==
    /\ gridConfig.enabled
    /\ gridConfig' = [gridConfig EXCEPT !.enabled = FALSE]
    /\ gridPoints' = <<>>
    /\ UNCHANGED markerPosition
    /\ UNCHANGED <<gridVars, trackVars, schedVars>>

----------------------------------------------------------------------------
(* The ranking scheduler of the dashboard (dashboard-src/server/scheduler.ts) *)

\* The network waits of the trackers are the only points where a ranking check
\* yields to other timers and requests: storage is in memory.

ProjectIds == {"p1", "p2"}
KeywordCounts == {0, 2}
ScheduleInputs == {1, 5}
CycleSlots == 1..MaxCycles

\* A slot without a cycle
FreeCycle == [kind |-> "free", project |-> "", keywords |-> 0, kw |-> 0, queue |-> <<>>]

\* A cycle that awaits the tracker for keyword kw of a project; queue holds the
\* projects an immediate check has still to visit
RunningCycle(kind, projectId, project, queue) ==
    [kind |-> kind, project |-> projectId, keywords |-> project.keywords, kw |-> 1,
     queue |-> queue]

SchedIdle ==
    /\ projectIds = {} /\ projects = <<>> /\ projectSchedulers = <<>> /\ timers = <<>>
    /\ nextTimerId = 1 /\ isRunning = FALSE /\ cycles = [c \in CycleSlots |-> FreeCycle]

\* map.delete(key)
MapDelete(map, key) == [k \in DOMAIN map \ {key} |-> map[k]]

\* map.set(key, value)
MapSet(map, key, value) == [k \in DOMAIN map \cup {key} |-> IF k = key THEN value ELSE map[k]]

\* clearInterval(id)
ClearInterval(set, id) == MapDelete(set, id)

\* Mutant: the new timer is installed beside the previous one
TimersAfterStartKeepsOld(set, schedulers, projectId, id) == MapSet(set, id, projectId)

\* The timers after startProjectScheduler for a project
TimersAfterStart(set, schedulers, projectId, id) ==
    LET cleared == IF projectId \in DOMAIN schedulers
                   THEN ClearInterval(set, schedulers[projectId].intervalId)
                   ELSE set
    IN  MapSet(cleared, id, projectId)

\* startProjectScheduler(project)
startProjectScheduler(projectId, project) ==
    /\ timers' = TimersAfterStart(timers, projectSchedulers, projectId, nextTimerId)
    /\ projectSchedulers' = MapSet(projectSchedulers, projectId,
                                   [intervalId |-> nextTimerId,
                                    intervalDays |-> project.scheduleInterval,
                                    lastCheckTime |-> "null"])
    /\ nextTimerId' = nextTimerId + 1

\* stopProjectScheduler(projectId)
stopProjectScheduler(projectId) ==
    /\ IF projectId \in DOMAIN projectSchedulers
       THEN /\ timers' = ClearInterval(timers, projectSchedulers[projectId].intervalId)
            /\ projectSchedulers' = MapDelete(projectSchedulers, projectId)
       ELSE UNCHANGED <<timers, projectSchedulers>>
    /\ UNCHANGED nextTimerId

\* POST /api/projects: the project is stored and its scheduler started
CreateProject ==
    /\ nextTimerId <= MaxTimers
    /\ \E id \in ProjectIds \ projectIds, n \in KeywordCounts, days \in ScheduleInputs :
          LET project == [keywords |-> n, scheduleInterval |-> days]
          IN  /\ projectIds' = projectIds \cup {id}
              /\ projects' = MapSet(projects, id, project)
              /\ startProjectScheduler(id, project)
    /\ UNCHANGED <<isRunning, cycles>>
    /\ UNCHANGED <<gridVars, trackVars, clientVars>>

\* PATCH or PUT /api/projects/:id with a schedule interval: the scheduler is restarted
UpdateProject ==
    /\ nextTimerId <= MaxTimers
    /\ \E id \in DOMAIN projects, days \in ScheduleInputs :
          LET project == [projects[id] EXCEPT !.scheduleInterval = days]
          IN  /\ projects' = MapSet(projects, id, project)
              /\ startProjectScheduler(id, project)
    /\ UNCHANGED <<projectIds, isRunning, cycles>>
    /\ UNCHANGED <<gridVars, trackVars, clientVars>>

\* DELETE /api/projects/:id
DeleteProject ==
    /\ \E id \in DOMAIN projects :
          /\ projects' = MapDelete(projects, id)
          /\ stopProjectScheduler(id)
    /\ UNCHANGED <<projectIds, isRunning, cycles>>
    /\ UNCHANGED <<gridVars, trackVars, clientVars>>

\* scheduler.lastCheckTime = new Date(), when the project still has a scheduler
MarkChecked(schedulers, projectId) ==
    IF projectId \in DOMAIN schedulers
    THEN [schedulers EXCEPT ![projectId].lastCheckTime = "set"]
    ELSE schedulers

\* checkProjectRankings runs to its first network wait: FALSE when it returns
\* without one (no keywords, or no key so that every tracker call fails at once)
Waits(project) == project.keywords > 0 /\ apiKey

\* The schedulers after the projects of a queue that are checked without a wait
RECURSIVE CheckedAtOnce(_, _)
CheckedAtOnce(schedulers, queue) ==
    IF queue = <<>> \/ Waits(queue[1].project) THEN schedulers
    ELSE CheckedAtOnce(IF queue[1].project.keywords > 0
                       THEN MarkChecked(schedulers, queue[1].id)
                       ELSE schedulers,
                       Tail(queue))

\* The rest of a queue from its first project that has a network wait
RECURSIVE FromFirstWait(_)
FromFirstWait(queue) ==
    IF queue = <<>> \/ Waits(queue[1].project) THEN queue ELSE FromFirstWait(Tail(queue))

\* The smallest free slot, 0 when every slot holds a cycle
FreeSlot == IF \E c \in CycleSlots : cycles[c] = FreeCycle
            THEN CHOOSE c \in CycleSlots : cycles[c] = FreeCycle /\ \A d \in 1..(c - 1) : cycles[d] # FreeCycle
            ELSE 0

\* The loop of an immediate check goes on over queue, or the check ends
ContinueImmediate(c, schedulers, queue) ==
    LET rest == FromFirstWait(queue)
    IN  /\ projectSchedulers' = CheckedAtOnce(schedulers, queue)
        /\ IF rest = <<>>
           THEN /\ isRunning' = FALSE
                /\ cycles' = [cycles EXCEPT ![c] = FreeCycle]
           ELSE /\ isRunning' = TRUE
                /\ cycles' = [cycles EXCEPT ![c] =
                                 RunningCycle("immediate", rest[1].id, rest[1].project, Tail(rest))]

\* The interval timer of a project fires: the callback loads the project and
\* starts checkProjectRankings, whatever else is in progress
TimerFires ==
    /\ FreeSlot # 0
    /\ \E t \in DOMAIN timers :
          LET id == timers[t]
          IN  IF id \in DOMAIN projects /\ Waits(projects[id])
              THEN /\ cycles' = [cycles EXCEPT ![FreeSlot] =
                                    RunningCycle("interval", id, projects[id], <<>>)]
                   /\ UNCHANGED projectSchedulers
              ELSE /\ projectSchedulers' =
                          IF id \in DOMAIN projects /\ projects[id].keywords > 0
                          THEN MarkChecked(projectSchedulers, id)
                          ELSE projectSchedulers
                   /\ UNCHANGED cycles
    /\ UNCHANGED <<projectIds, projects, timers, nextTimerId, isRunning>>
    /\ UNCHANGED <<gridVars, trackVars, clientVars>>

\* getProjects(): the stored projects, as a list
ProjectQueue ==
    LET ids == DOMAIN projects
        first == CHOOSE f \in [1..Cardinality(ids) -> ids] :
                    \A i, j \in 1..Cardinality(ids) : i # j => f[i] # f[j]
    IN  [k \in 1..Cardinality(ids) |-> [id |-> first[k], project |-> projects[first[k]]]]

\* runImmediateCheck(): skipped while isRunning, else the projects are checked in turn
runImmediateCheck ==
    /\ FreeSlot # 0
    /\ IF isRunning
       THEN UNCHANGED <<projectSchedulers, isRunning, cycles>>
       ELSE ContinueImmediate(FreeSlot, projectSchedulers, ProjectQueue)
    /\ UNCHANGED <<projectIds, projects, timers, nextTimerId>>
    /\ UNCHANGED <<gridVars, trackVars, clientVars>>

\* The tracker of the keyword a cycle waits for settles: the next keyword is
\* tracked, or the ranking is saved and the cycle goes on or ends
KeywordTracked(c) ==
    /\ cycles[c] # FreeCycle
    /\ IF cycles[c].kw < cycles[c].keywords
       THEN /\ cycles' = [cycles EXCEPT ![c].kw = @ + 1]
            /\ UNCHANGED <<projectSchedulers, isRunning>>
       ELSE LET checked == MarkChecked(projectSchedulers, cycles[c].project)
            IN  IF cycles[c].kind = "immediate"
                THEN ContinueImmediate(c, checked, cycles[c].queue)
                ELSE /\ projectSchedulers' = checked
                     /\ cycles' = [cycles EXCEPT ![c] = FreeCycle]
                     /\ UNCHANGED isRunning
    /\ UNCHANGED <<projectIds, projects, timers, nextTimerId>>
    /\ UNCHANGED <<gridVars, trackVars, clientVars>>

TrackerSettles == \E c \in CycleSlots : KeywordTracked(c)

----------------------------------------------------------------------------
(* Specifications *)

\* One grid search at a time
Init == GridInit /\ TrackIdle /\ ClientIdle /\ SchedIdle

Next ==
    \/ \E u \in Users : Login(u)
    \/ GridSearchRequest(1)
    \/ ProviderSettles(1)
    \/ GatherAndPause(1)
    \/ PauseElapsed(1)
    \/ GatherAndRespond(1)

Spec == Init /\ [][Next]_vars

\* Grid searches of the same user side by side
ConcurrentNext ==
    \/ \E u \in Users : Login(u)
    \/ \E r \in Requests : ConcurrentRequest(r)
    \/ \E r \in Requests : ProviderSettles(r)
    \/ \E r \in Requests : GatherAndPause(r)
    \/ \E r \in Requests : PauseElapsed(r)
    \/ \E r \in Requests : GatherAndRespond(r)

ConcurrentSpec == Init /\ [][ConcurrentNext]_vars

\* One project rankings check
TrackInit ==
    /\ apiKey \in BOOLEAN
    /\ sessions = {}
    /\ userCredits = <<>>
    /\ pc = [r \in Requests |-> "idle"]
    /\ body = [r \in Requests |-> IdleBody]
    /\ batchStart = [r \in Requests |-> 0]
    /\ calls = [r \in Requests |-> <<>>]
    /\ results = [r \in Requests |-> <<>>]
    /\ response = [r \in Requests |-> NoResponse]
    /\ issued = [r \in Requests |-> <<>>]
    /\ nbatches = [r \in Requests |-> 0]
    /\ TrackIdle
    /\ ClientIdle
    /\ SchedIdle

TrackNext ==
    \/ StartOrganicCheck
    \/ StartLocalCheck
    \/ CallTrackKeywordRanking
    \/ CallTrackLocalRanking
    \/ OrganicPage
    \/ LocalPage
    \/ Collect

TrackSpec == TrackInit /\ [][TrackNext]_vars

\* The summary of one set of outcomes
SummaryInit == TrackInit /\ apiKey

SummaryNext == PushOutcome \/ Summarise

SummarySpec == SummaryInit /\ [][SummaryNext]_vars

\* The map page
ClientInit == TrackInit /\ apiKey

ClientNext ==
    \/ handleNavigate
    \/ handleShowGrid
    \/ handleGridConfigChange
    \/ handleToggleGridPoint
    \/ handleCancelGrid

ClientSpec == ClientInit /\ [][ClientNext]_vars

\* The organic tracker over single-item pages of any link, for any target
MatchInit == TrackInit /\ apiKey

MatchNext ==
    \/ StartMatchCheck
    \/ CallTrackKeywordRanking
    \/ SingleItemPage
    \/ Collect

MatchSpec == MatchInit /\ [][MatchNext]_vars

\* The projects of the dashboard and their scheduler
SchedInit == TrackInit

SchedNext ==
    \/ CreateProject
    \/ UpdateProject
    \/ DeleteProject
    \/ TimerFires
    \/ runImmediateCheck
    \/ TrackerSettles

SchedSpec == SchedInit /\ [][SchedNext]_vars

\* A grid search, or else a project rankings check
GridTurn == tpc = "idle"
TrackTurn == pc[1] = "idle" /\ sessions = {}

RequestsInit == Init /\ userCredits = <<>>

RequestsNext ==
    \/ GridTurn /\ \E u \in Users : Login(u)
    \/ GridTurn /\ GridSearchRequest(1)
    \/ GridTurn /\ ProviderSettles(1)
    \/ GridTurn /\ GatherAndPause(1)
    \/ GridTurn /\ PauseElapsed(1)
    \/ GridTurn /\ GatherAndRespond(1)
    \/ TrackTurn /\ StartOrganicCheck
    \/ TrackTurn /\ StartLocalCheck
    \/ TrackTurn /\ CallTrackKeywordRanking
    \/ TrackTurn /\ CallTrackLocalRanking
    \/ TrackTurn /\ OrganicPage
    \/ TrackTurn /\ LocalPage
    \/ TrackTurn /\ Collect

RequestsSpec == RequestsInit /\ [][RequestsNext]_vars

----------------------------------------------------------------------------
(* Properties of the grid search *)

Points(r) == body[r].gridPoints

Answered(r) == response[r].status = 200

SamePoint(outcome, point) ==
    outcome.pointId = point.id /\ outcome.row = point.row /\ outcome.col = point.col

\* C1: the i-th outcome of a grid search belongs to the i-th submitted point (same
\* pointId, row and col), in the results array while it grows and in the response,
\* whatever order the calls of a batch settle in.
C1_OutcomesFollowInputOrder ==
    \A r \in Requests :
        /\ Len(results[r]) <= Len(Points(r))
        /\ \A i \in 1..Len(results[r]) : SamePoint(results[r][i], Points(r)[i])
        /\ Answered(r) =>
              /\ Len(response[r].results) = Len(Points(r))
              /\ \A i \in 1..Len(Points(r)) : SamePoint(response[r].results[i], Points(r)[i])

\* A run of three batches over points submitted in descending order was answered
C1_Witness ==
    /\ Answered(1)
    /\ nbatches[1] = 3
    /\ Points(1)[1] # LatticePoint(1)
    /\ body[1].scenario = 1

\* What the provider answered for a point makes its call fail or raise
CallFails(r, point) ==
    LET resp == Provider(body[r].scenario, point)
    IN  resp.kind # "ok" \/ \E k \in 1..Len(resp.places) : resp.places[k].website = NonString

\* C2: a grid search that got past its pre-flight checks is answered with exactly n
\* outcomes; the outcome of a point whose call fails or raises has rank null, no
\* matched place, no places and a non-empty error; the outcome of every other point
\* carries no error and is what its own provider answer alone determines.
C2_FailuresAreIsolated ==
    \A r \in Requests :
        /\ (pc[r] = "done" /\ nbatches[r] > 0) => Answered(r)
        /\ Answered(r) =>
              /\ Len(response[r].results) = Len(Points(r))
              /\ \A i \in 1..Len(Points(r)) :
                    LET o == response[r].results[i]
                    IN  IF CallFails(r, Points(r)[i])
                        THEN /\ o.rank = NullRank
                             /\ o.matchedPlace = <<>>
                             /\ o.places = <<>>
                             /\ o.error \notin {NoError, ""}
                        ELSE /\ o.error = NoError
                             /\ o = searchGridPoint(Points(r)[i],
                                                    Provider(body[r].scenario, Points(r)[i]),
                                                    TargetDomain(r))

\* A run of five points was answered: the third point failed with status 429, the
\* first with a rejected fetch, and the fourth was found at rank 7
C2_Witness ==
    /\ Answered(1)
    /\ Len(Points(1)) = 5
    /\ response[1].results[3].error = "API error: 429"
    /\ response[1].results[1].error = "fetch failed"
    /\ response[1].results[4].rank = 7

\* C3: a grid search over n points dispatches ceil(n / 5) batches, and never has
\* more than 5 provider calls in flight.
C3_BatchesOfFive ==
    \A r \in Requests :
        /\ InFlight(r) <= 5
        /\ nbatches[r] <= (Len(Points(r)) + 4) \div 5
        /\ Answered(r) => nbatches[r] = (Len(Points(r)) + 4) \div 5

\* Eleven points were searched in three batches
C3_Witness ==
    /\ Answered(1)
    /\ Len(Points(1)) = 11
    /\ nbatches[1] = 3
    /\ Len(issued[1]) = 11

\* A keyword that is missing, empty or only whitespace
IsBlank(keyword) ==
    \/ keyword = Undefined
    \/ keyword # NonString /\ \A k \in 1..Len(keyword) : keyword[k] = " "

\* The request got past the session and credit gate
PastGate(r) == pc[r] # "idle" /\ response[r].status \notin {401, 403}

\* C4: a grid-search request whose gridPoints is missing or empty, or whose keyword
\* is blank (empty or only whitespace), is rejected with a validation error before
\* any provider request is issued.
C4_BlankInputRejected ==
    \A r \in Requests :
        (PastGate(r) /\ (GridPointsRejected(body[r]) \/ IsBlank(body[r].keyword))) =>
            /\ issued[r] = <<>>
            /\ pc[r] = "done"
            /\ response[r].status = 400

\* C5: a grid search that is answered with its results costs the invoking user
\* exactly one credit, at the moment it is answered, whatever the number of points
\* and of failed points; a request that is rejected, and every other step of a
\* run, leaves the credits as they are.
C5_OneCreditPerAnsweredRun ==
    [][/\ \A r \in Requests :
             LET user == body'[r].user
                 ends == pc[r] # "done" /\ pc'[r] = "done"
             IN  /\ (ends /\ response'[r].status = 200) =>
                       /\ user \in DOMAIN userCredits
                       /\ userCredits' = [userCredits EXCEPT ![user] = @ - 1]
                 /\ (ends /\ response'[r].status # 200) => userCredits' = userCredits
       /\ ((\A r \in Requests : pc'[r] = "done" => pc[r] = "done") /\ sessions' = sessions) =>
             userCredits' = userCredits]_vars

\* A run of more than five points with a failed point was answered and used the
\* user's last credit
C5_Witness ==
    /\ Answered(1)
    /\ Len(Points(1)) > 5
    /\ \E i \in 1..Len(Points(1)) : response[1].results[i].error # NoError
    /\ userCredits[body[1].user] = 0

----------------------------------------------------------------------------
(* Properties of the trackers and the rankings checks *)

\* C6: without the provider credential every orchestration entry point fails as
\* a whole: no provider request is issued for any point or keyword, and no
\* per-point or per-keyword outcomes are returned or stored.
C6_NoKeyNoOutcomes ==
    ~apiKey =>
        /\ \A r \in Requests : issued[r] = <<>> /\ results[r] = <<>> /\ ~Answered(r)
        /\ pageRequests = <<>>
        /\ rankings = <<>>
        /\ stored = <<>>
        /\ checkResponse # 200

OrganicRun == check.mode = "organic"
LocalRun == check.mode = "local"

\* The tracker run has returned; Value is what it returned
HasReturned == trackResult # <<>> /\ ~trackResult[1].thrown
Value == trackResult[1].value

PageHasMatch(resp) == \E k \in 1..Len(resp.items) : domainMatches(resp.items[k].link, check.target)

\* C7: the organic tracker returns the first matching item in (page, index) order
\* and requests no page after the page that holds a match.
C7_FirstMatchStopsTheScan ==
    OrganicRun =>
        /\ tpc = "wait" => \A q \in 1..Len(pagesSeen) : ~PageHasMatch(pagesSeen[q])
        /\ \A q \in 1..Len(pagesSeen) : PageHasMatch(pagesSeen[q]) =>
              /\ q = Len(pagesSeen)
              /\ pageRequests = [n \in 1..q |-> n]
              /\ HasReturned
              /\ Value.found
              /\ Value.page = q
              /\ domainMatches(pagesSeen[q].items[Value.positionOnPage].link, check.target)
              /\ Value.url = pagesSeen[q].items[Value.positionOnPage].link
              /\ \A j \in 1..(Value.positionOnPage - 1) :
                    ~domainMatches(pagesSeen[q].items[j].link, check.target)
        /\ (HasReturned /\ Value.found) => PageHasMatch(pagesSeen[Len(pagesSeen)])

\* The target was the first item of page 1, before another item, and page 2 was
\* never requested
C7_Witness ==
    /\ OrganicRun
    /\ HasReturned
    /\ Value.found
    /\ pagesSeen = <<PageOk(<<ITEM_T, ITEM_O>>)>>
    /\ pageRequests = <<1>>
    /\ tpc = "done"

RECURSIVE ItemsBefore(_, _)
\* Number of items on the first q pages seen
ItemsBefore(seen, q) == IF q = 0 THEN 0 ELSE Len(seen[q].items) + ItemsBefore(seen, q - 1)

\* C8: a target found on page p at 1-based index k is returned with page p,
\* positionOnPage k and overallPosition k plus the number of items of pages 1..p-1.
C8_OverallPositionCountsEarlierPages ==
    (OrganicRun /\ HasReturned /\ Value.found) =>
        /\ Value.page = Len(pagesSeen)
        /\ Value.positionOnPage \in 1..Len(pagesSeen[Value.page].items)
        /\ pagesSeen[Value.page].items[Value.positionOnPage].link = Value.url
        /\ domainMatches(Value.url, check.target)
        /\ Value.overallPosition = Value.positionOnPage + ItemsBefore(pagesSeen, Value.page - 1)

\* Page 1 had two items, page 2 one, and the target was the third item of page 3
C8_Witness ==
    /\ OrganicRun
    /\ HasReturned
    /\ Value.found
    /\ Value.page = 3
    /\ Value.positionOnPage = 3
    /\ Value.overallPosition = 6
    /\ Len(pagesSeen[1].items) = 2

\* C9: when the fetch of page p fails the organic tracker requests no further
\* page and returns, without raising, found = false with every positional field
\* null and an error naming page p and the cause, whatever pages came before.
C9_FailedPageEndsTheRun ==
    OrganicRun =>
        /\ \A q \in 1..Len(pagesSeen) : ~pagesSeen[q].ok =>
              /\ q = Len(pagesSeen)
              /\ pageRequests = [n \in 1..q |-> n]
              /\ tpc # "wait"
              /\ HasReturned
              /\ Value = NotFoundResult(ErrorText(q, CauseOf(pagesSeen[q])))
              /\ Value.error.cause # ""
        /\ (~apiKey /\ trackResult # <<>>) =>
              /\ HasReturned
              /\ Value = NotFoundResult(ErrorText(1, KEY_MISSING))

\* Pages 1 and 2 were fetched, the fetch of page 3 failed
C9_Witness ==
    /\ OrganicRun
    /\ Len(pagesSeen) = 3
    /\ pagesSeen[1].ok /\ pagesSeen[2].ok /\ ~pagesSeen[3].ok
    /\ HasReturned
    /\ Value.error.page = 3

\* C10: in every result trackLocalRanking returns, on success or on error, found
\* is true exactly when matchingPlaces is non-empty.
C10_FoundIffMatches ==
    (LocalRun /\ HasReturned) => (Value.found <=> Value.matchingPlaces # <<>>)

RECURSIVE Scanned(_, _)
\* The listings of the first q pages seen, in scan order
Scanned(seen, q) == IF q = 0 THEN <<>> ELSE Scanned(seen, q - 1) \o seen[q].items

\* The listing has a website and it matches the project's target
ListingMatches(listing) ==
    listing.link \notin {Undefined, <<>>} /\ domainMatches(listing.link, check.target)

\* C11: the local-pack tracker does not stop at its first match: after a page with
\* listings it goes on to the next page until page 5; whenever it returns,
\* matchingPlaces holds exactly the scanned listings whose website matches the
\* target, in scan order, each with its 1-based overall index as position, and
\* totalPlaces is the number of listings scanned.
C11_LocalScanCollectsEveryMatch ==
    LocalRun =>
        /\ Len(pageRequests) <= MAX_PAGES
        /\ (tpc = "wait" /\ matchingPlaces # <<>>) => Len(pageRequests) = Len(pagesSeen) + 1
        /\ (HasReturned /\ Value.error = NoErrorText) =>
              \/ Len(pagesSeen) = MAX_PAGES
              \/ pagesSeen[Len(pagesSeen)].items = <<>>
        /\ HasReturned =>
              LET scanned == Scanned(pagesSeen, Len(pagesSeen))
                  found == Value.matchingPlaces
              IN  /\ Value.totalPlaces = Len(scanned)
                  /\ \A m \in 1..Len(found) :
                        /\ found[m].position \in 1..Len(scanned)
                        /\ ListingMatches(scanned[found[m].position])
                        /\ found[m].website = scanned[found[m].position].link
                        /\ found[m].title = scanned[found[m].position].title
                  /\ \A m \in 1..(Len(found) - 1) : found[m].position < found[m + 1].position
                  /\ \A i \in 1..Len(scanned) :
                        ListingMatches(scanned[i]) => \E m \in 1..Len(found) : found[m].position = i

\* Five pages were scanned; matches of the first and of the fifth page were collected
C11_Witness ==
    /\ LocalRun
    /\ HasReturned
    /\ Value.error = NoErrorText
    /\ Len(pagesSeen) = MAX_PAGES
    /\ Len(Value.matchingPlaces) >= 4
    /\ Value.matchingPlaces[1].position = 1
    /\ Value.matchingPlaces[Len(Value.matchingPlaces)].position = Value.totalPlaces


----------------------------------------------------------------------------
(* Properties of the summary *)

\* Ranks of the outcomes of an answered grid search, null ones included
Ranks(r) == [i \in 1..Len(response[r].results) |-> response[r].results[i].rank]

\* Number of outcomes with a non-null rank of at most limit
RankedUpTo(ranks, limit) ==
    Cardinality({i \in 1..Len(ranks) : ranks[i] # NullRank /\ ranks[i] <= limit})

Ranked(ranks) == Cardinality({i \in 1..Len(ranks) : ranks[i] # NullRank})

\* C12: in the summary top3Count, top10Count and top20Count are the numbers of
\* outcomes with a non-null rank <= 3, <= 10 and <= 20, foundCount is the number
\* of outcomes with a non-null rank and notFoundCount is totalPoints - foundCount;
\* hence top3Count <= top10Count <= top20Count <= foundCount <= totalPoints.
C12_SummaryCounts ==
    \A r \in Requests : Answered(r) =>
        LET sm == response[r].summary
            ranks == Ranks(r)
        IN  /\ sm.top3Count = RankedUpTo(ranks, 3)
            /\ sm.top10Count = RankedUpTo(ranks, 10)
            /\ sm.top20Count = RankedUpTo(ranks, 20)
            /\ sm.foundCount = Ranked(ranks)
            /\ sm.notFoundCount = response[r].totalPoints - sm.foundCount
            /\ sm.top3Count <= sm.top10Count
            /\ sm.top10Count <= sm.top20Count
            /\ sm.top20Count <= sm.foundCount
            /\ sm.foundCount <= response[r].totalPoints

\* Ranks 3, 10, 20 and 21 were summarised: one outcome enters each band at its limit
C12_Witness ==
    /\ Answered(1)
    /\ Ranks(1) = <<3, 10, 20, 21>>
    /\ response[1].summary.top3Count = 1
    /\ response[1].summary.top10Count = 2
    /\ response[1].summary.top20Count = 3
    /\ response[1].summary.foundCount = 4

\* p is count / total * 100 rounded to the nearest integer, halves upwards
IsRoundedPercent(p, count, total) ==
    2 * total * p <= 200 * count + total /\ 200 * count + total < 2 * total * (p + 1)

\* C13: each top-K percentage of the summary is round(topKCount / totalPoints * 100)
\* with the number of submitted points as denominator, and lies between 0 and 100.
C13_PercentOfTotalPoints ==
    \A r \in Requests : Answered(r) =>
        LET sm == response[r].summary
            total == response[r].totalPoints
        IN  /\ total = Len(response[r].results)
            /\ IsRoundedPercent(sm.top3Percent, sm.top3Count, total)
            /\ IsRoundedPercent(sm.top10Percent, sm.top10Count, total)
            /\ IsRoundedPercent(sm.top20Percent, sm.top20Count, total)
            /\ {sm.top3Percent, sm.top10Percent, sm.top20Percent} \subseteq 0..100

\* Three points, two of them found: one in the top 3 (33 %), two in the top 10
\* (67 %, which is neither 66 nor the 100 % of the found points)
C13_Witness ==
    /\ Answered(1)
    /\ response[1].totalPoints = 3
    /\ response[1].summary.foundCount = 2
    /\ response[1].summary.top3Percent = 33
    /\ response[1].summary.top10Percent = 67

\* The outcomes of the example: ranks 1, 5, 15 and null over 4 points
ExampleRun(r) == Answered(r) /\ Ranks(r) = <<1, 5, 15, NullRank>> /\ response[r].totalPoints = 4

\* The summary but for top3Percent: avgRank 7.0, 3 found, 1 not found, 1 in the
\* top 3, 2 in the top 10 (50 %), 3 in the top 20 (75 %)
ExampleSummary(sm) ==
    /\ sm.avgRank = 70
    /\ sm.foundCount = 3
    /\ sm.notFoundCount = 1
    /\ sm.top3Count = 1
    /\ sm.top10Count = 2
    /\ sm.top10Percent = 50
    /\ sm.top20Count = 3
    /\ sm.top20Percent = 75

\* C14 as stated: ranks [1, 5, 15, null] over 4 points give avgRank 7.0, foundCount 3,
\* notFoundCount 1, top3Count 1 with top3Percent 33, top10Count 2 with
\* top10Percent 50 and top20Count 3 with top20Percent 75.
C14_ExampleAsStated ==
    \A r \in Requests : ExampleRun(r) =>
        ExampleSummary(response[r].summary) /\ response[r].summary.top3Percent = 33

\* C14, amended: the same summary with top3Percent 25, one point of four
C14_ExampleSummary ==
    \A r \in Requests : ExampleRun(r) =>
        ExampleSummary(response[r].summary) /\ response[r].summary.top3Percent = 25

\* The example's outcomes were summarised
C14_Witness == ExampleRun(1) /\ response[1].summary.top3Percent # 33

\* t is the mean sum / n in tenths, rounded to the nearest tenth, halves upwards
IsRoundedMean(t, sum, n) == 2 * n * t <= 20 * sum + n /\ 20 * sum + n < 2 * n * (t + 1)

RECURSIVE SumOf(_)
\* Sum of the non-null ranks (null is 0)
SumOf(ranks) == IF ranks = <<>> THEN 0 ELSE ranks[1] + SumOf(Tail(ranks))

\* C15: avgRank is null exactly when no outcome has a non-null rank; otherwise it
\* is the mean of the non-null ranks rounded to one decimal place, outcomes without
\* a rank not entering the mean.
C15_AvgRankOfRankedOutcomes ==
    \A r \in Requests : Answered(r) =>
        LET avg == response[r].summary.avgRank
            ranks == Ranks(r)
        IN  /\ avg = NullRank <=> Ranked(ranks) = 0
            /\ Ranked(ranks) > 0 => IsRoundedMean(avg, SumOf(ranks), Ranked(ranks))

\* Ranks 1, 1 and 3 with one outcome without a rank: the mean 1.666... became 1.7
C15_Witness ==
    /\ Answered(1)
    /\ Ranks(1) = <<1, NullRank, 1, 3>>
    /\ response[1].summary.avgRank = 17


----------------------------------------------------------------------------
(* Properties of the map page's grid *)

Centers(points) == {k \in 1..Len(points) : points[k].isCenter}

\* C16: for any center, any positive spacing, either unit and any odd gridSize the
\* grid has exactly gridSize^2 points, exactly one of them flagged isCenter, and
\* that point has row 0, col 0 and exactly the latitude and longitude of the center.
C16_OddGridHasOneCenter ==
    (gridConfig.enabled /\ markerPosition # <<>> /\ gridConfig.gridSize % 2 = 1) =>
        /\ Len(gridPoints) = gridConfig.gridSize * gridConfig.gridSize
        /\ Cardinality(Centers(gridPoints)) = 1
        /\ \A k \in Centers(gridPoints) :
              /\ gridPoints[k].row = 0
              /\ gridPoints[k].col = 0
              /\ gridPoints[k].lat = markerPosition[1].lat
              /\ gridPoints[k].lng = markerPosition[1].lng

\* A 5x5 grid in metres around a center off the equator: the center is its 13th
\* point, and the corner next to it in the list lies elsewhere
C16_Witness ==
    /\ gridConfig = [enabled |-> TRUE, distanceUnit |-> "meters", spacing |-> 5, gridSize |-> 5]
    /\ markerPosition # <<>>
    /\ markerPosition[1].lat = 4071280
    /\ Len(gridPoints) = 25
    /\ gridPoints[13].isCenter
    /\ gridPoints[1].lat < markerPosition[1].lat
    /\ gridPoints[1].lng < markerPosition[1].lng


----------------------------------------------------------------------------
(* Properties of the domain comparison *)

\* The host of each link and target: scheme, port, path and query removed,
\* lower-cased, a leading www. stripped
NormalHost(u) ==
    CASE u \in {LINK_BLOG, TARGET_BLOG} -> BLOG_ \o EXAMPLE_COM
      [] u = LINK_NOT -> <<"n", "o", "t">> \o EXAMPLE_COM
      [] u = LINK_EVIL -> EXAMPLE_COM \o <<".", "e", "v", "i", "l", ".", "i", "o">>
      [] u = OTHER_COM -> OTHER_COM
      [] u \in {LINK_BARE, LINK_WWW, LINK_MIXED, EXAMPLE_COM, TARGET_WWW, TARGET_MIXED} -> EXAMPLE_COM
      [] OTHER -> <<>>

\* a is b preceded by at least one label and a dot
IsSubdomainOf(a, b) ==
    \E n \in 1..(Len(a) - Len(b) - 1) :
        /\ a[n + 1] = "."
        /\ SubSeq(a, n + 2, Len(a)) = b

SameSite(link, target) ==
    /\ link # Undefined
    /\ NormalHost(link) = NormalHost(target) \/ IsSubdomainOf(NormalHost(link), NormalHost(target))

\* C17: a result link matches the target exactly when, after normalization (scheme
\* removed, host lower-cased, leading www. stripped), its host equals the target's
\* host or is a dot-delimited subdomain of it: the tracker returns a page's item as
\* found for just those links; blog.example.com and www.example.com match
\* example.com, example.com does not match other.com.
C17_DomainMatchesSameSite ==
    OrganicRun =>
        /\ \A q \in 1..Len(pagesSeen) : \A k \in 1..Len(pagesSeen[q].items) :
              LET link == pagesSeen[q].items[k].link
              IN  (link \in MatchLinks /\ check.target \in MatchTargets /\ Len(pagesSeen[q].items) = 1) =>
                     /\ domainMatches(link, check.target) <=> SameSite(link, check.target)
                     /\ SameSite(link, check.target) <=>
                           (HasReturned /\ Value.found /\ Value.page = q /\ Value.url = link)
        /\ domainMatches(LINK_BLOG, EXAMPLE_COM)
        /\ domainMatches(LINK_WWW, EXAMPLE_COM)
        /\ ~domainMatches(LINK_BARE, OTHER_COM)

\* For target example.com the links notexample.com and example.com.evil.io were
\* passed over and blog.example.com was returned as found on page 3
C17_Witness ==
    /\ OrganicRun
    /\ check.target = EXAMPLE_COM
    /\ Len(pagesSeen) = 3
    /\ pagesSeen[1].items[1].link = LINK_NOT
    /\ pagesSeen[2].items[1].link = LINK_EVIL
    /\ pagesSeen[3].items[1].link = LINK_BLOG
    /\ HasReturned
    /\ Value.found
    /\ Value.page = 3


----------------------------------------------------------------------------
(* Properties of the scheduler *)

\* The ranking-check cycles that are executing
Executing == {c \in CycleSlots : cycles[c] # FreeCycle}

\* C18: re-entrancy protection prevents overlapping execution cycles: two
\* ranking-check cycles of the scheduler (per-project interval checks and
\* immediate checks) never execute at the same time.
C18_CyclesNeverOverlap == Cardinality(Executing) <= 1


----------------------------------------------------------------------------
(* Order of the steps of a grid search *)

\* C19: the batches of a grid search are separated by a strict barrier: the
\* requests sent are those of the batches dispatched so far, a batch is dispatched
\* only from the pause, when the outcome of every earlier request is in the
\* results, and a batch that is not the last is followed by the pause whether its
\* points succeeded or failed.
C19_BatchBarrier ==
    /\ [](\A r \in Requests :
             /\ Len(issued[r]) = Min(batchSize * nbatches[r], Len(Points(r)))
             /\ pc[r] = "batch" => Len(results[r]) = batchSize * (nbatches[r] - 1)
             /\ pc[r] = "pause" => Len(results[r]) = Len(issued[r]) /\ InFlight(r) = 0)
    /\ [][\A r \in Requests :
             /\ (issued'[r] # issued[r] /\ issued[r] # <<>>) =>
                   /\ pc[r] = "pause"
                   /\ Len(results[r]) = Len(issued[r])
                   /\ nbatches'[r] = nbatches[r] + 1
             /\ (pc[r] = "batch" /\ pc'[r] # "batch" /\ Len(issued[r]) < Len(Points(r))) =>
                   pc'[r] = "pause"]_vars

\* The second batch was dispatched after a first batch with a failed point
C19_Witness ==
    /\ pc[1] = "batch"
    /\ nbatches[1] = 2
    /\ Len(issued[1]) = 10
    /\ Len(results[1]) = 5
    /\ \E i \in 1..5 : results[1][i].error # NoError
    /\ \E i \in 1..5 : results[1][i].error = NoError


----------------------------------------------------------------------------
(* The end of the organic scan *)

\* C20: if page p returns zero items, the organic tracker requests no page after p
\* and returns found = false with page, positionOnPage, overallPosition, url and
\* title all null.
C20_EmptyPageEndsTheScan ==
    OrganicRun =>
        \A q \in 1..Len(pagesSeen) : (pagesSeen[q].ok /\ pagesSeen[q].items = <<>>) =>
            /\ q = Len(pagesSeen)
            /\ pageRequests = [n \in 1..q |-> n]
            /\ tpc # "wait"
            /\ HasReturned
            /\ ~Value.found
            /\ Value.page = Null
            /\ Value.positionOnPage = Null
            /\ Value.overallPosition = Null
            /\ Value.url = <<>>
            /\ Value.title = ""
            /\ Value.error = NoErrorText

\* Pages 1 and 2 had items without a match, page 3 had none
C20_Witness ==
    /\ OrganicRun
    /\ Len(pagesSeen) = 3
    /\ pagesSeen[1].items # <<>>
    /\ pagesSeen[2].items # <<>>
    /\ pagesSeen[3].ok
    /\ pagesSeen[3].items = <<>>
    /\ HasReturned
    /\ pageRequests = <<1, 2, 3>>


----------------------------------------------------------------------------
(* The page budget of the trackers *)

\* C21: in one run the organic and the local tracker request pages 1, 2, ... in
\* ascending order without gaps and never more than 5 of them; when 5 non-empty
\* pages hold no match the organic tracker returns found = false.
C21_PagesInOrderWithinBudget ==
    /\ pageRequests = [n \in 1..Len(pageRequests) |-> n]
    /\ Len(pageRequests) <= 5
    /\ Len(pagesSeen) <= Len(pageRequests)
    /\ (OrganicRun /\ Len(pagesSeen) = 5
        /\ \A q \in 1..5 : pagesSeen[q].ok /\ pagesSeen[q].items # <<>> /\ ~PageHasMatch(pagesSeen[q])) =>
           /\ HasReturned
           /\ ~Value.found
           /\ Value.page = Null
           /\ Value.error = NoErrorText

\* Five non-empty pages without a match were scanned by the organic tracker
C21_Witness ==
    /\ OrganicRun
    /\ Len(pagesSeen) = 5
    /\ \A q \in 1..5 : pagesSeen[q].ok /\ pagesSeen[q].items # <<>>
    /\ pageRequests = <<1, 2, 3, 4, 5>>
    /\ HasReturned
    /\ ~Value.found

\* Five pages of places were scanned by the local tracker
C21_LocalWitness ==
    /\ LocalRun
    /\ pageRequests = <<1, 2, 3, 4, 5>>
    /\ HasReturned


----------------------------------------------------------------------------
(* Provider requests are not repeated *)

\* Number of provider requests sent for the point at index k of request r
SentFor(r, k) == Cardinality({i \in 1..Len(issued[r]) : issued[r][i] = k})

\* C22: there are no retries: in a grid search each submitted point causes exactly
\* one provider request, and in a tracker run each page number is requested at
\* most once, whether the request succeeds or fails.
C22_NoRetries ==
    /\ \A r \in Requests :
          /\ \A k \in 1..Len(Points(r)) : SentFor(r, k) <= 1
          /\ Answered(r) => \A k \in 1..Len(Points(r)) : SentFor(r, k) = 1
          /\ Len(results[r]) + Len(calls[r]) = Len(issued[r]) \/ pc[r] = "done"
    /\ \A i, j \in 1..Len(pageRequests) : i # j => pageRequests[i] # pageRequests[j]
    /\ \A q \in 1..Len(pagesSeen) : ~pagesSeen[q].ok => Len(pageRequests) = q

\* A grid search with a failed point was answered after one request per point
C22_Witness ==
    /\ Answered(1)
    /\ Len(Points(1)) > 5
    /\ \E i \in 1..Len(Points(1)) : response[1].results[i].error = "fetch failed"
    /\ \A k \in 1..Len(Points(1)) : SentFor(1, k) = 1

\* A tracker run ended with the failed fetch of page 2, requested once
C22_TrackerWitness ==
    /\ Len(pagesSeen) = 2
    /\ ~pagesSeen[2].ok
    /\ pageRequests = <<1, 2>>
    /\ trackResult # <<>>


----------------------------------------------------------------------------
(* The rank of a grid point *)

\* The listings the provider returned for the i-th point of request r
Listings(r, i) == Provider(body[r].scenario, Points(r)[i]).places

\* Indices of the listings that the handler's test takes for the target
MatchingListings(r, i) ==
    {k \in 1..Len(Listings(r, i)) :
        /\ TargetDomain(r) # <<>>
        /\ Listings(r, i)[k].website \notin {Undefined, NonString}
        /\ PlaceMatches(normalizeWebsite(Listings(r, i)[k].website), TargetDomain(r))}

FirstListing(r, i) == CHOOSE k \in MatchingListings(r, i) : \A j \in MatchingListings(r, i) : k <= j

\* The outcomes of the points whose provider call succeeded
Succeeded(r) == {i \in 1..Len(response[r].results) : response[r].results[i].error = NoError}

\* C23 as stated: for a grid point whose provider call succeeds, rank is the
\* 1-based position, in the returned listing order, of the first listing that
\* matches the target domain, and null exactly when no returned listing matches.
C23_RankIsListingIndex ==
    \A r \in Requests : Answered(r) => \A i \in Succeeded(r) :
        LET rank == response[r].results[i].rank
        IN  /\ rank = NullRank <=> MatchingListings(r, i) = {}
            /\ MatchingListings(r, i) # {} => rank = FirstListing(r, i)

\* C23, amended: for a grid point whose provider call succeeds, rank is the position
\* field of the first listing, in the returned order, that matches the target
\* domain, or that listing's 1-based index when the field is missing or 0; rank
\* is null exactly when no returned listing matches.
C23_RankOfFirstMatch ==
    \A r \in Requests : Answered(r) => \A i \in Succeeded(r) :
        LET rank == response[r].results[i].rank
            first == Listings(r, i)[FirstListing(r, i)]
        IN  /\ rank = NullRank <=> MatchingListings(r, i) = {}
            /\ MatchingListings(r, i) # {} =>
                  /\ rank = IF first.position # 0 THEN first.position ELSE FirstListing(r, i)
                  /\ response[r].results[i].matchedPlace = <<first>>

\* One point was found at its second listing, which carries position 7, another at
\* its third listing, which carries none, and a third was not found
C23_Witness ==
    /\ Answered(1)
    /\ \E i \in Succeeded(1) :
          /\ MatchingListings(1, i) # {}
          /\ FirstListing(1, i) = 2
          /\ response[1].results[i].rank = 7
    /\ \E i \in Succeeded(1) :
          /\ MatchingListings(1, i) # {}
          /\ Listings(1, i)[FirstListing(1, i)].position = 0
          /\ response[1].results[i].rank = 3
    /\ \E i \in Succeeded(1) :
          Listings(1, i) # <<>> /\ response[1].results[i].rank = NullRank


\* The canonical rule: the listing's domain is the target or a subdomain of it
StrictSuffixMatch(websiteDomain, targetDomain) ==
    \/ websiteDomain = targetDomain
    \/ endsWith(websiteDomain, <<".">> \o targetDomain)

\* Indices of the listings of a point that the canonical rule takes for the target
StrictListings(r, i) ==
    {k \in 1..Len(Listings(r, i)) :
        /\ TargetDomain(r) # <<>>
        /\ Listings(r, i)[k].website \notin {Undefined, NonString}
        /\ StrictSuffixMatch(normalizeWebsite(Listings(r, i)[k].website), TargetDomain(r))}

\* C24: a grid point is reported as found (non-null rank) only when some returned
\* listing's normalized website domain equals the normalized target domain or ends
\* with "." + the target domain; a listing whose domain merely contains the target,
\* or is contained in it, does not make the point found.
C24_FoundOnlyBySuffixRule ==
    \A r \in Requests : Answered(r) => \A i \in Succeeded(r) :
        response[r].results[i].rank # NullRank => StrictListings(r, i) # {}


----------------------------------------------------------------------------
(* The rank bands of the summary *)

\* Number of outcomes with a rank from lo to hi
RankedWithin(ranks, lo, hi) ==
    Cardinality({i \in 1..Len(ranks) : ranks[i] # NullRank /\ lo <= ranks[i] /\ ranks[i] <= hi})

\* C25 as stated: the summary bands are exclusive: an outcome with rank 3 is counted
\* in top3Count only (not in top10Count or top20Count), and an outcome with rank 10
\* is counted in top10Count but not in top3Count.
C25_BandsExclusive ==
    \A r \in Requests : Answered(r) =>
        LET sm == response[r].summary
            ranks == Ranks(r)
        IN  /\ sm.top3Count = RankedWithin(ranks, 1, 3)
            /\ sm.top10Count = RankedWithin(ranks, 4, 10)
            /\ sm.top20Count = RankedWithin(ranks, 11, 20)

\* C25, amended: the summary bands are cumulative: an outcome with rank 3 is counted
\* in top3Count, in top10Count and in top20Count, and an outcome with rank 10 is
\* counted in top10Count and in top20Count but not in top3Count; so each band exceeds
\* the band below it by the outcomes ranked strictly between their limits.
C25_BandsCumulative ==
    \A r \in Requests : Answered(r) =>
        LET sm == response[r].summary
            ranks == Ranks(r)
        IN  /\ sm.top3Count = RankedWithin(ranks, 1, 3)
            /\ sm.top10Count - sm.top3Count = RankedWithin(ranks, 4, 10)
            /\ sm.top20Count - sm.top10Count = RankedWithin(ranks, 11, 20)
            /\ sm.top10Count >= RankedWithin(ranks, 3, 3) + RankedWithin(ranks, 10, 10)
            /\ sm.top20Count >= RankedWithin(ranks, 3, 3) + RankedWithin(ranks, 10, 10)

\* A run with one outcome of rank 3 and one of rank 10 was summarised: the first is
\* in all three bands, the second in the upper two
C25_Witness ==
    /\ Answered(1)
    /\ Ranks(1) = <<3, 10, NullRank>>
    /\ response[1].summary.top3Count = 1
    /\ response[1].summary.top10Count = 2
    /\ response[1].summary.top20Count = 2


----------------------------------------------------------------------------
(* The direction of the tracker's domain match *)

\* The page q of the run held the single item link and the run returned it as found
ReturnedAt(q, link) == HasReturned /\ Value.found /\ Value.page = q /\ Value.url = link

\* The single-item pages of a run over the links and targets of the match inputs
SinglePages ==
    {q \in 1..Len(pagesSeen) :
        /\ Len(pagesSeen[q].items) = 1
        /\ pagesSeen[q].items[1].link \in MatchLinks \ {Undefined}
        /\ check.target \in MatchTargets}

\* C26 as stated: the domain match is symmetric in the subdomain relation: a result
\* on example.com matches the target a.example.com just as a result on
\* a.example.com matches the target example.com.
C26_MatchSymmetric ==
    OrganicRun => \A q \in SinglePages :
        LET link == pagesSeen[q].items[1].link
        IN  /\ domainMatches(link, check.target) <=> domainMatches(check.target, link)
            /\ (SameSite(link, check.target) \/ SameSite(check.target, link))
                  <=> ReturnedAt(q, link)

\* C26, amended: the domain match is one-directional: a result on a.example.com
\* matches the target example.com, but a result on example.com does not match the
\* target a.example.com; the tracker passes such a result over.
C26_MatchOneWay ==
    OrganicRun =>
        /\ \A q \in SinglePages :
              LET link == pagesSeen[q].items[1].link
              IN  /\ IsSubdomainOf(NormalHost(link), NormalHost(check.target))
                        => domainMatches(link, check.target) /\ ReturnedAt(q, link)
                  /\ IsSubdomainOf(NormalHost(check.target), NormalHost(link))
                        => ~domainMatches(link, check.target) /\ ~ReturnedAt(q, link)
        /\ domainMatches(LINK_BLOG, EXAMPLE_COM)
        /\ ~domainMatches(LINK_BARE, TARGET_BLOG)

\* For target blog.example.com the result on example.com was passed over on page 1
\* and the result on blog.example.com was returned as found on page 2
C26_Witness ==
    /\ OrganicRun
    /\ check.target = TARGET_BLOG
    /\ Len(pagesSeen) = 2
    /\ pagesSeen[1].items[1].link = LINK_BARE
    /\ pagesSeen[2].items[1].link = LINK_BLOG
    /\ ReturnedAt(2, LINK_BLOG)


----------------------------------------------------------------------------
(* The grid of an even size *)

EvenGrid == gridConfig.enabled /\ markerPosition # <<>> /\ gridConfig.gridSize % 2 = 0

\* C27 as stated: for an even gridSize, calculateGridPoints produces no point
\* flagged isCenter (no cell is exactly the center).
C27_EvenGridHasNoCenter ==
    EvenGrid => Centers(gridPoints) = {}

\* C27, amended: for an even gridSize, calculateGridPoints produces the grid of the
\* next odd size: rows and columns run from -gridSize/2 to gridSize/2, which gives
\* (gridSize + 1)^2 points, and exactly one of them, at row 0 and col 0 and at the
\* coordinates of the center, is flagged isCenter.
C27_EvenGridHasCenter ==
    EvenGrid =>
        /\ Len(gridPoints) = (gridConfig.gridSize + 1) * (gridConfig.gridSize + 1)
        /\ \A k \in 1..Len(gridPoints) :
              /\ gridPoints[k].row \in (0 - gridConfig.gridSize \div 2)..(gridConfig.gridSize \div 2)
              /\ gridPoints[k].col \in (0 - gridConfig.gridSize \div 2)..(gridConfig.gridSize \div 2)
        /\ Cardinality(Centers(gridPoints)) = 1
        /\ \A k \in Centers(gridPoints) :
              /\ gridPoints[k].row = 0
              /\ gridPoints[k].col = 0
              /\ gridPoints[k].lat = markerPosition[1].lat
              /\ gridPoints[k].lng = markerPosition[1].lng

\* A grid of size 4 is shown: it has 25 points and the 13th is the center
C27_Witness ==
    /\ EvenGrid
    /\ gridConfig.gridSize = 4
    /\ Len(gridPoints) = 25
    /\ gridPoints[13].isCenter
    /\ gridPoints[13].lat = markerPosition[1].lat


----------------------------------------------------------------------------
(* Credits under concurrent grid searches *)

\* Number of requests answered with their results
Completed == Cardinality({r \in Requests : Answered(r)})

\* C28: under any interleaving of concurrent grid-search requests of the same user,
\* that user's credit balance never becomes negative: the balance check in
\* requireCredits and the later decrement cannot together let more successful runs
\* complete than credits were available.
C28_CreditsNeverNegative ==
    \A u \in DOMAIN userCredits : userCredits[u] >= 0


----------------------------------------------------------------------------
(* A grid search without a target *)

\* The target website of request r is missing or normalizes to the empty string
EmptyTarget(r) == body[r].targetWebsite # NonString /\ TargetDomain(r) = <<>>

\* C29: if the target website normalizes to the empty string (missing or empty
\* targetWebsite), every point of the grid search is still queried but every outcome
\* has rank = null and matchedPlace = null, so foundCount is 0 and avgRank is null.
C29_EmptyTargetFindsNothing ==
    \A r \in Requests : (Answered(r) /\ EmptyTarget(r)) =>
        /\ \A i \in 1..Len(Points(r)) :
              Cardinality({j \in 1..Len(issued[r]) : issued[r][j] = i}) = 1
        /\ Len(response[r].results) = Len(Points(r))
        /\ \A i \in 1..Len(response[r].results) :
              /\ response[r].results[i].rank = NullRank
              /\ response[r].results[i].matchedPlace = <<>>
        /\ response[r].summary.foundCount = 0
        /\ response[r].summary.notFoundCount = Len(Points(r))
        /\ response[r].summary.avgRank = NullRank

\* A run of two batches for the target "https://" was answered, and one of its
\* points came back with listings that have websites
C29_Witness ==
    /\ Answered(1)
    /\ body[1].targetWebsite = HTTPS_
    /\ Len(Points(1)) > batchSize
    /\ \E i \in Succeeded(1) :
          /\ Listings(1, i) # <<>>
          /\ \A k \in 1..Len(Listings(1, i)) : Listings(1, i)[k].website \notin {Undefined, NonString}
    /\ response[1].summary.foundCount = 0

\* The same for an empty and for a missing targetWebsite
C29_MissingWitness ==
    /\ Answered(1)
    /\ body[1].targetWebsite \in {Undefined, <<>>}
    /\ Succeeded(1) # {}
    /\ response[1].summary.avgRank = NullRank


----------------------------------------------------------------------------
(* The interval timers of the projects *)

\* The active interval timers whose callback checks the project
TimersOf(projectId) == {t \in DOMAIN timers : timers[t] = projectId}

\* C30: after any sequence of project create, schedule-interval update and delete
\* operations, each project has at most one active interval timer, the one its
\* scheduler entry holds, and a project whose scheduler was removed has none.
C30_OneTimerPerProject ==
    \A p \in ProjectIds :
        /\ Cardinality(TimersOf(p)) <= 1
        /\ p \in DOMAIN projectSchedulers => TimersOf(p) = {projectSchedulers[p].intervalId}
        /\ p \notin DOMAIN projectSchedulers => TimersOf(p) = {}
        /\ p \in DOMAIN projectSchedulers <=> p \in DOMAIN projects

\* Three timers were installed, one of them by an update that replaced the first
\* timer of its project, and one project was deleted: one timer is left
C30_Witness ==
    /\ nextTimerId = 4
    /\ Cardinality(DOMAIN timers) = 1
    /\ Cardinality(projectIds) = 2
    /\ \E p \in DOMAIN projects :
          /\ DOMAIN projects = {p}
          /\ projectSchedulers[p].intervalId = 2
          /\ TimersOf(p) = {2}
    /\ \E p \in projectIds \ DOMAIN projects : TimersOf(p) = {}


====
